---- MODULE Spec2Model ----
(***************************************************************************)
(* A model of site-autofix's crawl-and-verify engine (src/link-scanner.ts): *)
(* the bounded concurrency executor asyncPool, the redirect-following      *)
(* verifier checkUrl and the crawl loop and classification of scanSite;    *)
(* and of its fix engine (src/link-fixer.ts): computeFixes and             *)
(* fixesToRedirects, with normalizeUrl, pathSimilarity and levenshtein.    *)
(***************************************************************************)
EXTENDS Integers, Sequences, FiniteSets, TLC

\* ------------------------------------------------------------------ bounds
MaxItems == 3          \* items handed to asyncPool in SpecPool
MaxConcurrency == 2    \* largest concurrency limit explored
MaxPagesOpt == 3       \* largest maxPages option explored
MaxLinksPerPage == 2   \* most anchors extractLinks returns for one page
MaxUrlLen == 4         \* characters after the origin of a URL given to normalizeUrl
MaxBroken == 2         \* broken results handed to computeFixes
MaxGood == 2           \* known-good URLs handed to computeFixes
MaxPathLen == 4        \* characters of a path given to pathSimilarity
MaxStrLen == 3         \* characters of a string given to levenshtein
MaxAnchors == 2        \* anchors of a page handed to extractLinks

\* ------------------------------------------------------ program constants
Null == "null"         \* a null string-valued field (finalUrl, error)
NullStatus == -1       \* statusCode: null
MaxRedirects == 10     \* followRedirects ? 10 : 0

VARIABLES
  \* asyncPool (link-scanner.ts:164-188)
  items,        \* the input array
  concurrency,  \* the concurrency argument
  idx,          \* position of the for-of loop: index of the next item
  poolPc,       \* "idle" | "loop" | "race" | "all" | "returned" | "threw"
  unit,         \* per item: state of fn(item) and of the promises chained on it
  executing,    \* the Set `executing` (indices of the wrapped promises in it)
  poolResults,  \* the array `results` of asyncPool
  starts,       \* per item: how many times fn(item) was called
  waitSet,      \* members of the Promise.race / Promise.all being awaited
  waitState     \* "none" | "pending" | "fulfilled" | "rejected"

poolVars == <<items, concurrency, idx, poolPc, unit, executing, poolResults,
              starts, waitSet, waitState>>

VARIABLES
  \* checkUrl (link-scanner.ts:68-131)
  followRedirects, \* the followRedirects argument
  ck,              \* the running check: pc, i, currentUrl, redirectChain, result
  ckLast,          \* the outcome of the latest fetch of the check
  ckLastUrl,       \* the URL the latest fetch requested
  ckRequests       \* number of fetches the check has issued

checkVars == <<followRedirects, ck, ckLast, ckLastUrl, ckRequests>>

VARIABLES
  \* scanSite (link-scanner.ts:196-298)
  maxPages,     \* opts.maxPages
  excluded,     \* the URLs some exclude pattern matches
  visited,      \* the Set `visited`
  toVisit,      \* the array `toVisit`
  allLinks,     \* the Map `allLinks`, in insertion order: href, sourcePages
  scanPc,       \* "idle" | "crawl" | "render" | "loaded" | "check" | "done"
                \* | "failed"
  curUrl,       \* `url` of the running loop iteration
  results,      \* the array `results` of scanSite
  scanResult,   \* the returned ScanResult
  gotoCalls,    \* per URL: number of page.goto(url) calls
  checkCalls,   \* per URL: number of checkUrl(url, ...) calls
  crawlErrors,  \* the URLs of the "Error crawling" lines written to stderr
  curPage       \* `page` of the running loop iteration, once loaded: the
                \* origin of its URL and the href attributes of its anchors

scanVars == <<maxPages, excluded, visited, toVisit, allLinks, scanPc, curUrl,
              results, scanResult, gotoCalls, checkCalls, crawlErrors,
              curPage>>

VARIABLES
  nz,           \* normalizeUrl: the input, its image and the image of that
  fx,           \* computeFixes / fixesToRedirects: arguments and return values
  sm,           \* pathSimilarity / levenshtein: arguments and return values
  ap,           \* applyFixesToContent: arguments and return value
  ce            \* classifyError: arguments and return value

pureVars == <<nz, fx, sm, ap, ce>>

VARIABLES
  cli           \* the command run (scan | fix), what it printed, its exit code

vars == <<poolVars, checkVars, scanVars, pureVars, cli>>

\* ================================================================== URLs

\* A URL string is a sequence of characters; the characters of its origin
\* are kept together as one element.
Origin == "https://example.com"

UrlChars == {"/", "a", "?", "#"}

Last(str) == str[Len(str)]

\* Index of the first character of str that is in chars, Len(str) + 1 if none.
FirstOf(str, chars) ==
  LET hits == {i \in 1..Len(str) : str[i] \in chars} IN
  IF hits = {} THEN Len(str) + 1
  ELSE CHOOSE i \in hits : \A j \in hits : i <= j

\* new URL(url) succeeds: url is absolute (a relative reference throws).
Parseable(url) ==
  /\ Len(url) >= 1
  /\ url[1] = Origin
  /\ Len(url) >= 2 => url[2] \in {"/", "?", "#"}

\* new URL(url): pathname, query and fragment (absent, or the characters
\* after "?" and "#"); an empty path is the root path.
ParseUrl(url) ==
  LET rest == Tail(url)
      pathEnd == FirstOf(rest, {"?", "#"})
      hashAt == FirstOf(rest, {"#"})
      path == SubSeq(rest, 1, pathEnd - 1)
  IN [pathname |-> IF path = <<>> THEN <<"/">> ELSE path,
      hasQuery |-> pathEnd <= Len(rest) /\ rest[pathEnd] = "?",
      query |-> IF pathEnd <= Len(rest) /\ rest[pathEnd] = "?"
                  THEN SubSeq(rest, pathEnd + 1, hashAt - 1) ELSE <<>>,
      hasHash |-> hashAt <= Len(rest),
      hash |-> SubSeq(rest, hashAt + 1, Len(rest))]

\* URL.prototype.toString()
UrlToString(parsed) ==
  <<Origin>> \o parsed.pathname
    \o (IF parsed.hasQuery THEN <<"?">> \o parsed.query ELSE <<>>)
    \o (IF parsed.hasHash THEN <<"#">> \o parsed.hash ELSE <<>>)

\* link-scanner.ts:41  parsed.hash = ""
ClearHash(parsed) == [parsed EXCEPT !.hasHash = FALSE, !.hash = <<>>]

\* link-scanner.ts:38-51
normalizeUrl(url) ==
  IF ~Parseable(url) THEN url
  ELSE LET parsed == ClearHash(ParseUrl(url))
           normalized == UrlToString(parsed)
       IN IF Last(normalized) = "/" /\ parsed.pathname # <<"/">>
            THEN SubSeq(normalized, 1, Len(normalized) - 1)
            ELSE normalized

\* The strings given to normalizeUrl: absolute URLs of the origin and
\* relative references.
RECURSIVE StringsUpTo(_, _)
StringsUpTo(chars, n) ==
  IF n = 0 THEN {<<>>}
  ELSE LET shorter == StringsUpTo(chars, n - 1) IN
       shorter \cup {Append(str, c) : str \in shorter, c \in chars}

NormInputs ==
  LET tails == StringsUpTo(UrlChars, MaxUrlLen) IN
  {<<Origin>> \o t : t \in {t \in tails : t = <<>> \/ t[1] # "a"}}
    \cup (tails \ {<<>>})

NormIdle == nz = [pc |-> "idle"]


NormInit == \E url \in NormInputs : nz = [pc |-> "input", url |-> url]

\* normalizeUrl(url)
NormalizeOnce ==
  /\ nz.pc = "input"
  /\ nz' = [pc |-> "once", url |-> nz.url, once |-> normalizeUrl(nz.url)]

\* normalizeUrl(normalizeUrl(url))
NormalizeTwice ==
  /\ nz.pc = "once"
  /\ nz' = [pc |-> "twice", url |-> nz.url, once |-> nz.once,
            twice |-> normalizeUrl(nz.once)]

\* ============================================================ link-fixer

\* Rational numbers, in lowest terms, for the confidence scores.
RECURSIVE Gcd(_, _)
Gcd(a, b) == IF b = 0 THEN a ELSE Gcd(b, a % b)

Frac(n, d) ==
  IF n = 0 THEN [n |-> 0, d |-> 1]
  ELSE [n |-> n \div Gcd(n, d), d |-> d \div Gcd(n, d)]

Less(x, y) == x.n * y.d < y.n * x.d
AtLeast(x, y) == x.n * y.d >= y.n * x.d

Zero == Frac(0, 1)
One == Frac(1, 1)

\* link-fixer.ts:142  const confidence = 0.95
RedirectConfidence == Frac(95, 100)

Min2(a, b) == IF a <= b THEN a ELSE b
Max2(a, b) == IF a >= b THEN a ELSE b

\* the matrix without the substitution branch
levenshteinNoSubstitution(a, b) ==
  LET matrix[i \in 0..Len(b), j \in 0..Len(a)] ==
        IF i = 0 THEN j
        ELSE IF j = 0 THEN i
        ELSE IF b[i] = a[j] THEN matrix[i - 1, j - 1]
        ELSE Min2(matrix[i, j - 1] + 1, matrix[i - 1, j] + 1)
  IN matrix[Len(b), Len(a)]

\* link-fixer.ts:14-39  the (|b|+1) x (|a|+1) matrix, entry [|b|, |a|]
levenshtein(a, b) ==
  LET matrix[i \in 0..Len(b), j \in 0..Len(a)] ==
        IF i = 0 THEN j
        ELSE IF j = 0 THEN i
        ELSE IF b[i] = a[j] THEN matrix[i - 1, j - 1]
        ELSE Min2(matrix[i - 1, j - 1] + 1,
                  Min2(matrix[i, j - 1] + 1, matrix[i - 1, j] + 1))
  IN matrix[Len(b), Len(a)]

\* a toLowerCase that changes nothing
LowerCharKeep(c) == c

\* String.prototype.toLowerCase, on the letters in use
LowerChar(c) == IF c = "A" THEN "a" ELSE c

ToLowerCase(str) == [i \in 1..Len(str) |-> LowerChar(str[i])]

\* String.prototype.split("/")
RECURSIVE Split(_)
Split(str) ==
  LET cut == FirstOf(str, {"/"}) IN
  IF cut > Len(str) THEN <<str>>
  ELSE <<SubSeq(str, 1, cut - 1)>> \o Split(SubSeq(str, cut + 1, Len(str)))

NonEmpty(str) == Len(str) > 0

\* Array.prototype.join("/")
RECURSIVE Join(_)
Join(segs) ==
  IF segs = <<>> THEN <<>>
  ELSE IF Len(segs) = 1 THEN segs[1]
  ELSE segs[1] \o <<"/">> \o Join(Tail(segs))

\* link-fixer.ts:44-57
pathSegments(url) ==
  LET text == IF Parseable(url) THEN ParseUrl(url).pathname ELSE url
      kept == SelectSeq(Split(text), NonEmpty)
  IN [i \in 1..Len(kept) |-> ToLowerCase(kept[i])]

\* the pairs of equal segments of segA and segB
MatchesPairs(segA, segB) ==
  Cardinality({p \in (1..Len(segA)) \X (1..Len(segB)) :
                 segA[p[1]] = segB[p[2]]})

\* link-fixer.ts:73-77, 169  the segments of segA that segB includes
Matches(segA, segB) ==
  Cardinality({i \in 1..Len(segA) : \E j \in 1..Len(segB) : segB[j] = segA[i]})

\* link-fixer.ts:62-89
pathSimilarity(urlA, urlB) ==
  LET segA == pathSegments(urlA)
      segB == pathSegments(urlB)
  IN IF Len(segA) = 0 /\ Len(segB) = 0 THEN One
     ELSE IF Len(segA) = 0 \/ Len(segB) = 0 THEN Zero
     ELSE LET maxLen == Max2(Len(segA), Len(segB))
              matches == Matches(segA, segB)
              pathA == Join(segA)
              pathB == Join(segB)
              maxPathLen == Max2(Len(pathA), Len(pathB))
              editDistance == levenshtein(pathA, pathB)
          IN \* matches/maxLen * 0.6 + (1 - editDistance/maxPathLen) * 0.4
             Frac(6 * matches * maxPathLen
                    + 4 * (maxPathLen - editDistance) * maxLen,
                  10 * maxLen * maxPathLen)

\* new URL(url).pathname + search
getPathnameWithSearch(url) ==
  IF Parseable(url)
    THEN ParseUrl(url).pathname
           \o (IF ParseUrl(url).hasQuery THEN <<"?">> \o ParseUrl(url).query
               ELSE <<>>)
    ELSE url

\* link-fixer.ts:70-77, 87  matches / maxLen, for non-empty segA and segB
segmentSimilarity(urlA, urlB) ==
  LET segA == pathSegments(urlA)
      segB == pathSegments(urlB)
  IN Frac(Matches(segA, segB), Max2(Len(segA), Len(segB)))

\* link-fixer.ts:80-84  maxPathLen > 0 ? 1 - editDistance / maxPathLen : 1
editSimilarity(urlA, urlB) ==
  LET pathA == Join(pathSegments(urlA))
      pathB == Join(pathSegments(urlB))
      maxPathLen == Max2(Len(pathA), Len(pathB))
  IN IF maxPathLen > 0
       THEN Frac(maxPathLen - levenshtein(pathA, pathB), maxPathLen)
       ELSE One

\* link-fixer.ts:94-100
getPathname(url) == IF Parseable(url) THEN ParseUrl(url).pathname ELSE url

\* brokenByUrl that opens a new entry for every broken result
RECURSIVE GroupByHrefNoMerge(_, _)
GroupByHrefNoMerge(links, groups) ==
  IF links = <<>> THEN groups
  ELSE GroupByHrefNoMerge(Tail(links),
         Append(groups, [href |-> Head(links).href,
                         sourcePages |-> <<Head(links).sourcePage>>]))

\* link-fixer.ts:123-128  brokenByUrl, in insertion order
RECURSIVE GroupByHref(_, _)
GroupByHref(links, groups) ==
  IF links = <<>> THEN groups
  ELSE LET link == Head(links) IN
       GroupByHref(Tail(links),
         IF \E i \in 1..Len(groups) : groups[i].href = link.href
           THEN [i \in 1..Len(groups) |->
                   IF groups[i].href = link.href
                     THEN [groups[i] EXCEPT
                             !.sourcePages = Append(@, link.sourcePage)]
                     ELSE groups[i]]
           ELSE Append(groups, [href |-> link.href,
                                sourcePages |-> <<link.sourcePage>>]))

\* a finalUrl that is undefined or "": what `if (link.finalUrl)` rejects
NoUrl == <<>>

\* redirectTargets keeping the first finalUrl seen for an href
RedirectTargetFirst(redirectLinks, href) ==
  LET hits == {i \in 1..Len(redirectLinks) :
                 /\ redirectLinks[i].href = href
                 /\ redirectLinks[i].finalUrl # <<>>} IN
  IF hits = {} THEN <<>>
  ELSE redirectLinks[CHOOSE i \in hits : \A j \in hits : i <= j].finalUrl

\* link-fixer.ts:131-136, 140  redirectTargets.get(href): the finalUrl of the
\* last redirect result with that href and a truthy finalUrl, or NoUrl
RedirectTarget(redirectLinks, href) ==
  LET hits == {i \in 1..Len(redirectLinks) :
                 /\ redirectLinks[i].href = href
                 /\ redirectLinks[i].finalUrl # NoUrl} IN
  IF hits = {} THEN NoUrl
  ELSE redirectLinks[CHOOSE i \in hits : \A j \in hits : j <= i].finalUrl

\* link-fixer.ts:156  let bestMatch = null
NoMatch == [found |-> FALSE, url |-> NoUrl, score |-> Zero]

\* score >= (bestMatch?.score ?? 0)
ImprovesOrTies(score, bestMatch) == AtLeast(score, bestMatch.score)

\* link-fixer.ts:160  score > (bestMatch?.score ?? 0)
Improves(score, bestMatch) == Less(bestMatch.score, score)

\* link-fixer.ts:156-163
RECURSIVE BestMatch(_, _, _)
BestMatch(brokenUrl, goodUrls, bestMatch) ==
  IF goodUrls = <<>> THEN bestMatch
  ELSE LET score == pathSimilarity(brokenUrl, Head(goodUrls)) IN
       BestMatch(brokenUrl, Tail(goodUrls),
                 IF Improves(score, bestMatch)
                   THEN [found |-> TRUE, url |-> Head(goodUrls),
                         score |-> score]
                   ELSE bestMatch)

\* link-fixer.ts:143  confidence >= minConfidence
RedirectClears(minConfidence) == AtLeast(RedirectConfidence, minConfidence)

\* link-fixer.ts:138-181  the body of the loop over brokenByUrl: the fixes
\* pushed for one broken href (none or one)
FixesFor(group, knownGoodUrls, redirectLinks, minConfidence) ==
  LET redirectTarget == RedirectTarget(redirectLinks, group.href)
      bestMatch == BestMatch(group.href, knownGoodUrls, NoMatch)
  IN IF redirectTarget # NoUrl /\ RedirectClears(minConfidence)
       THEN <<[originalHref |-> group.href,
               suggestedHref |-> redirectTarget,
               confidence |-> RedirectConfidence,
               method |-> "redirect-target",
               sourcePages |-> group.sourcePages]>>
     ELSE IF bestMatch.found /\ AtLeast(bestMatch.score, minConfidence)
       THEN <<[originalHref |-> group.href,
               suggestedHref |-> bestMatch.url,
               confidence |-> bestMatch.score,
               method |-> IF Matches(pathSegments(group.href),
                                     pathSegments(bestMatch.url)) > 0
                            THEN "path-similarity" ELSE "fuzzy-match",
               sourcePages |-> group.sourcePages]>>
     ELSE <<>>

\* a sort that puts a fix before the earlier fixes of its confidence
RECURSIVE InsertFixBeforeEquals(_, _)
InsertFixBeforeEquals(sorted, fix) ==
  IF sorted = <<>> THEN <<fix>>
  ELSE IF AtLeast(fix.confidence, Head(sorted).confidence)
    THEN <<fix>> \o sorted
    ELSE <<Head(sorted)>> \o InsertFixBeforeEquals(Tail(sorted), fix)

\* link-fixer.ts:184  fixes.sort((a, b) => b.confidence - a.confidence):
\* Array.prototype.sort is stable
RECURSIVE InsertFix(_, _)
InsertFix(sorted, fix) ==
  IF sorted = <<>> THEN <<fix>>
  ELSE IF Less(Head(sorted).confidence, fix.confidence)
    THEN <<fix>> \o sorted
    ELSE <<Head(sorted)>> \o InsertFix(Tail(sorted), fix)

RECURSIVE SortFixes(_, _)
SortFixes(fixes, sorted) ==
  IF fixes = <<>> THEN sorted
  ELSE SortFixes(Tail(fixes), InsertFix(sorted, Head(fixes)))

RECURSIVE CollectFixes(_, _, _, _)
CollectFixes(groups, knownGoodUrls, redirectLinks, minConfidence) ==
  IF groups = <<>> THEN <<>>
  ELSE FixesFor(Head(groups), knownGoodUrls, redirectLinks, minConfidence)
         \o CollectFixes(Tail(groups), knownGoodUrls, redirectLinks,
                         minConfidence)

\* link-fixer.ts:113-186
computeFixes(brokenLinks, knownGoodUrls, redirectLinks, minConfidence) ==
  SortFixes(CollectFixes(GroupByHref(brokenLinks, <<>>), knownGoodUrls,
                         redirectLinks, minConfidence),
            <<>>)

\* fix.confidence > minConfidence
KeepsFixStrict(fix, minConfidence) == Less(minConfidence, fix.confidence)

\* link-fixer.ts:196  fix.confidence >= minConfidence
KeepsFix(fix, minConfidence) == AtLeast(fix.confidence, minConfidence)

\* link-fixer.ts:191-202
fixesToRedirects(fixes, minConfidence) ==
  LET Keep(fix) == KeepsFix(fix, minConfidence)
      kept == SelectSeq(fixes, Keep)
  IN [i \in 1..Len(kept) |->
        [from |-> getPathname(kept[i].originalHref),
         to |-> getPathname(kept[i].suggestedHref),
         statusCode |-> 301]]

\* ---- the arguments of pathSimilarity and of levenshtein explored
SimChars == {"/", "a", "A"}
LevChars == {"/", "a", "b"}

\* absolute URLs with a path of up to MaxPathLen characters, and short
\* strings that new URL() rejects
SimInputs ==
  {<<Origin>> \o t : t \in {t \in StringsUpTo(SimChars, MaxPathLen) :
                              t = <<>> \/ t[1] = "/"}}
    \cup StringsUpTo(SimChars, MaxPathLen - 2)

LevInputs == StringsUpTo(LevChars, MaxStrLen)

SimIdle == sm = [pc |-> "idle"]

SimInit ==
  \/ \E urlA \in SimInputs, urlB \in SimInputs :
       sm = [pc |-> "urls", a |-> urlA, b |-> urlB]
  \/ \E a \in LevInputs, b \in LevInputs :
       sm = [pc |-> "strings", a |-> a, b |-> b]

\* pathSimilarity(urlA, urlB) and pathSimilarity(urlB, urlA)
PathSimilarity ==
  /\ sm.pc = "urls"
  /\ sm' = [pc |-> "scored", a |-> sm.a, b |-> sm.b,
            ab |-> pathSimilarity(sm.a, sm.b),
            ba |-> pathSimilarity(sm.b, sm.a)]

\* levenshtein(a, b)
Levenshtein ==
  /\ sm.pc = "strings"
  /\ sm' = [pc |-> "measured", a |-> sm.a, b |-> sm.b,
            distance |-> levenshtein(sm.a, sm.b)]

\* ---- the arguments of computeFixes explored
UrlAB == <<Origin, "/", "a", "/", "b">>
UrlC == <<Origin, "/", "c">>
UrlA == <<Origin, "/", "a">>
UrlB == <<Origin, "/", "b">>
UrlUpperAB == <<Origin, "/", "A", "/", "b">>
RelativeCQuery == <<"/", "c", "?", "a">>      \* no origin: new URL() throws
UrlMoved == <<Origin, "/", "b", "/", "a", "?", "a">>

BrokenChoices ==
  {[href |-> UrlAB, sourcePage |-> "/p1"],
   [href |-> UrlAB, sourcePage |-> "/p2"],
   [href |-> UrlC, sourcePage |-> "/p1"]}

GoodChoices == {UrlA, UrlB, UrlUpperAB, RelativeCQuery}

RedirectChoices ==
  {<<>>,
   <<[href |-> UrlAB, finalUrl |-> UrlMoved]>>,
   <<[href |-> UrlAB, finalUrl |-> NoUrl]>>,
   <<[href |-> UrlAB, finalUrl |-> UrlMoved],
     [href |-> UrlC, finalUrl |-> UrlB]>>,
   <<[href |-> UrlAB, finalUrl |-> UrlMoved],
     [href |-> UrlAB, finalUrl |-> UrlA]>>}

\* options.minConfidence: 0, the default 0.4, and 1
MinConfidences == {Zero, Frac(4, 10), One}

\* fixesToRedirects' minConfidence: 0, the default 0.6, and 0.95
RedirectFloors == {Zero, Frac(6, 10), Frac(95, 100)}

SeqsUpTo(set, n) == UNION {[1..k -> set] : k \in 0..n}

FixIdle == fx = [pc |-> "idle"]

FixInit ==
  \E broken \in SeqsUpTo(BrokenChoices, MaxBroken),
     good \in SeqsUpTo(GoodChoices, MaxGood),
     redirects \in RedirectChoices, floor \in MinConfidences :
    fx = [pc |-> "input", brokenLinks |-> broken, knownGoodUrls |-> good,
          redirectLinks |-> redirects, minConfidence |-> floor]

\* const fixes = computeFixes(brokenLinks, knownGoodUrls, redirectLinks, opts)
ComputeFixes ==
  /\ fx.pc = "input"
  /\ fx' = [pc |-> "fixed", brokenLinks |-> fx.brokenLinks,
            knownGoodUrls |-> fx.knownGoodUrls,
            redirectLinks |-> fx.redirectLinks,
            minConfidence |-> fx.minConfidence,
            fixes |-> computeFixes(fx.brokenLinks, fx.knownGoodUrls,
                                   fx.redirectLinks, fx.minConfidence)]

\* const redirects = fixesToRedirects(fixes, floor)
FixesToRedirects(floor) ==
  /\ fx.pc = "fixed"
  /\ fx' = [pc |-> "redirects", brokenLinks |-> fx.brokenLinks,
            knownGoodUrls |-> fx.knownGoodUrls,
            redirectLinks |-> fx.redirectLinks,
            minConfidence |-> fx.minConfidence,
            fixes |-> fx.fixes, floor |-> floor,
            redirects |-> fixesToRedirects(fx.fixes, floor)]

\* ---- applyFixesToContent
\* File content is a sequence of tokens: the text href= as one token, the
\* two quotes, and the characters of URLs.
HrefEq == "href="
DoubleQuote == "dq"
SingleQuote == "sq"

IsPrefix(p, q) == Len(p) <= Len(q) /\ \A i \in 1..Len(p) : q[i] = p[i]

Drop(q, n) == SubSeq(q, n + 1, Len(q))

\* String.prototype.includes
RECURSIVE Contains(_, _)
Contains(text, part) ==
  IF IsPrefix(part, text) THEN TRUE
  ELSE IF text = <<>> THEN FALSE
  ELSE Contains(Tail(text), part)

\* String.prototype.replace with a string pattern: the first occurrence
RECURSIVE ReplaceFirst(_, _, _)
ReplaceFirst(text, part, by) ==
  IF IsPrefix(part, text) THEN by \o Drop(text, Len(part))
  ELSE IF text = <<>> THEN <<>>
  ELSE <<Head(text)>> \o ReplaceFirst(Tail(text), part, by)

\* link-fixer.ts:233-238  the replacer called on each match
ReplaceMatch(match, fix) ==
  IF Contains(match, fix.originalHref)
    THEN ReplaceFirst(match, fix.originalHref, fix.suggestedHref)
    ELSE ReplaceFirst(match, getPathname(fix.originalHref),
                      getPathname(fix.suggestedHref))

\* link-fixer.ts:233  modified.replace(pattern, replacer) with a global
\* pattern that matches the literal text `pattern`
RECURSIVE ReplaceAll(_, _, _)
ReplaceAll(text, pattern, fix) ==
  IF text = <<>> THEN <<>>
  ELSE IF IsPrefix(pattern, text)
    THEN ReplaceMatch(pattern, fix)
           \o ReplaceAll(Drop(text, Len(pattern)), pattern, fix)
  ELSE <<Head(text)>> \o ReplaceAll(Tail(text), pattern, fix)

\* link-fixer.ts:224-229
Patterns(fix) ==
  LET originalPath == getPathname(fix.originalHref) IN
  << <<HrefEq, DoubleQuote>> \o originalPath \o <<DoubleQuote>>,
     <<HrefEq, SingleQuote>> \o originalPath \o <<SingleQuote>>,
     <<HrefEq, DoubleQuote>> \o fix.originalHref \o <<DoubleQuote>>,
     <<HrefEq, SingleQuote>> \o fix.originalHref \o <<SingleQuote>> >>

\* link-fixer.ts:231-243  the loop over the patterns of one fix; `changed`
\* notes whether any of them changed the content
RECURSIVE ApplyPatterns(_, _, _)
ApplyPatterns(patterns, fix, st) ==
  IF patterns = <<>> THEN st
  ELSE LET modified == ReplaceAll(st.content, Head(patterns), fix) IN
       ApplyPatterns(Tail(patterns), fix,
         IF modified # st.content
           THEN [content |-> modified, appliedCount |-> st.appliedCount + 1,
                 changed |-> TRUE]
           ELSE st)

\* a threshold test that lets every fix through
AppliesAlways(fix, minConfidence) == TRUE

\* link-fixer.ts:217  if (fix.confidence < minConfidence) continue
Applies(fix, minConfidence) == ~Less(fix.confidence, minConfidence)

\* link-fixer.ts:216-244  the loop over the fixes; `changedBy` notes the
\* fixes that changed the content
RECURSIVE ApplyLoop(_, _, _, _)
ApplyLoop(fixes, i, minConfidence, st) ==
  IF i > Len(fixes) THEN st
  ELSE IF ~Applies(fixes[i], minConfidence)
    THEN ApplyLoop(fixes, i + 1, minConfidence, st)
  ELSE LET after == ApplyPatterns(Patterns(fixes[i]), fixes[i],
                                  [content |-> st.content,
                                   appliedCount |-> st.appliedCount,
                                   changed |-> FALSE]) IN
       ApplyLoop(fixes, i + 1, minConfidence,
                 [content |-> after.content,
                  appliedCount |-> after.appliedCount,
                  changedBy |-> IF after.changed THEN st.changedBy \cup {i}
                                ELSE st.changedBy])

\* link-fixer.ts:208-246
applyFixesToContent(content, fixes, minConfidence) ==
  ApplyLoop(fixes, 1, minConfidence,
            [content |-> content, appliedCount |-> 0, changedBy |-> {}])

\* link-fixer.ts:211  minConfidence: number = 0.7
DefaultMinConfidence == Frac(7, 10)

MaxAttrs == 2
MaxApplyFixes == 2

PathA == <<"/", "a">>
PathB == <<"/", "b">>

\* href attributes of a file: either quote, a path or a full URL
Attr(quote, value) == <<HrefEq, quote>> \o value \o <<quote>>

AttrChoices ==
  {Attr(quote, value) : quote \in {DoubleQuote, SingleQuote},
                        value \in {PathA, PathB, UrlA}}

RECURSIVE Concat(_)
Concat(parts) == IF parts = <<>> THEN <<>> ELSE Head(parts) \o Concat(Tail(parts))

Contents == {Concat(attrs) : attrs \in SeqsUpTo(AttrChoices, MaxAttrs)}

ApplyFixChoices ==
  {[originalHref |-> UrlA, suggestedHref |-> UrlB, confidence |-> c] :
     c \in {Frac(5, 10), Frac(9, 10)}}
  \cup {[originalHref |-> UrlB, suggestedHref |-> UrlC, confidence |-> c] :
          c \in {Frac(5, 10), Frac(9, 10)}}
  \cup {[originalHref |-> PathB, suggestedHref |-> UrlC,
          confidence |-> Frac(9, 10)]}

ApplyInit ==
  \E content \in Contents, fixes \in SeqsUpTo(ApplyFixChoices, MaxApplyFixes) :
    ap = [pc |-> "called", content |-> content, fixes |-> fixes,
          minConfidence |-> DefaultMinConfidence]

ApplyFixesToContent ==
  /\ ap.pc = "called"
  /\ \E result \in {applyFixesToContent(ap.content, ap.fixes,
                                         ap.minConfidence)} :
       ap' = [pc |-> "applied", content |-> ap.content, fixes |-> ap.fixes,
              minConfidence |-> ap.minConfidence, result |-> result]

\* no call of applyFixesToContent is in progress
ApplyIdle == ap = [pc |-> "idle"]

\* ========================================================= classifyError

\* A response body is a sequence of words; a pattern is found in it when its
\* words occur in it one after the other.
MaxBodyWords == 2

BodyWords == {"Heap", "pool", "gateway", "env", "error", "unavailable"}

NullBody == <<"null">>

Bodies == UNION {[1..n -> BodyWords] : n \in 0..MaxBodyWords}

\* String.prototype.toLowerCase on the words of BodyWords
LowerWord(w) == IF w = "Heap" THEN "heap" ELSE w

LowerBody(body) == [i \in 1..Len(body) |-> LowerWord(body[i])]

\* String.prototype.includes
Includes(body, pattern) ==
  \E k \in 0..(Len(body) - Len(pattern)) :
    \A i \in 1..Len(pattern) : body[k + i] = pattern[i]

IncludesAny(body, patterns) == \E pattern \in patterns : Includes(body, pattern)

\* reporter.ts:324-381  the patterns of each class
OomPatterns ==
  {<<"out", "of", "memory">>, <<"heap">>, <<"oom">>, <<"memory", "limit">>}

DatabasePatterns ==
  {<<"database">>, <<"sql">>, <<"connection", "refused">>, <<"econnrefused">>,
   <<"pool">>, <<"postgres">>, <<"mysql">>, <<"mongo">>}

UpstreamPatterns == {<<"upstream">>, <<"gateway">>, <<"proxy">>}

UpstreamStatuses == {502, 503, 504}

ConfigurationPatterns ==
  {<<"configuration">>, <<"config">>, <<"env">>, <<"missing", "key">>,
   <<"undefined">>, <<"not", "configured">>}

ExceptionPatterns ==
  {<<"error">>, <<"exception">>, <<"stack">>, <<"at">>, <<"traceback">>}

\* reporter.ts:318  responseTimeMs >= 10000
SlowResponseMs == 10000

\* reporter.ts:312-384  (headers is not read)
classifyError(statusCode, body, responseTimeMs) ==
  IF statusCode = NullStatus \/ responseTimeMs >= SlowResponseMs
    THEN "timeout"
  ELSE LET bodyLower == LowerBody(IF body = NullBody THEN <<>> ELSE body) IN
    IF IncludesAny(bodyLower, OomPatterns) THEN "oom"
    ELSE IF IncludesAny(bodyLower, DatabasePatterns) THEN "database-error"
    ELSE IF \/ IncludesAny(bodyLower, UpstreamPatterns)
            \/ statusCode \in UpstreamStatuses
      THEN "upstream-dependency"
    ELSE IF IncludesAny(bodyLower, ConfigurationPatterns)
      THEN "configuration-error"
    ELSE IF IncludesAny(bodyLower, ExceptionPatterns)
      THEN "unhandled-exception"
    ELSE "unknown"

ClassifyStatuses == {NullStatus, 500} \cup UpstreamStatuses

ResponseTimes == {100, SlowResponseMs}

ClassifyIdle == ce = [pc |-> "idle"]

ClassifyInit ==
  \E statusCode \in ClassifyStatuses, body \in Bodies \cup {NullBody},
     responseTimeMs \in ResponseTimes :
    ce = [pc |-> "called", statusCode |-> statusCode, body |-> body,
          responseTimeMs |-> responseTimeMs]

ClassifyError ==
  /\ ce.pc = "called"
  /\ ce' = [pc |-> "classified", statusCode |-> ce.statusCode,
            body |-> ce.body, responseTimeMs |-> ce.responseTimeMs,
            class |-> classifyError(ce.statusCode, ce.body,
                                    ce.responseTimeMs)]

\* =============================================================== checkUrl

Urls == {"/", "/a", "/b"}     \* the same-origin URLs of the site
CheckUrls == {"/a", "/b"}     \* the URLs a single check is run over

BadLocation == "http://["     \* a Location value new URL() cannot parse

\* Outcomes of one fetch: a response (status and Location header, Null when
\* the header is absent or empty) or a rejection (timeout abort, network).
FailMessages == {"This operation was aborted", "fetch failed"}

HttpStatuses == {200, 302, 404, 500}

Responses(urls) ==
  [kind : {"http"}, status : HttpStatuses,
   location : urls \cup {Null, BadLocation}, msg : {Null}]
  \cup [kind : {"fail"}, status : {NullStatus}, location : {Null},
        msg : FailMessages]

NoResponse == [kind |-> "none", status |-> NullStatus, location |-> Null,
               msg |-> Null]

NoResult == [statusCode |-> NullStatus, finalUrl |-> Null,
             redirectChain |-> <<>>, error |-> "unset"]

\* link-scanner.ts:73-74
CheckStart(url) ==
  [pc |-> "fetch", i |-> 0, currentUrl |-> url, redirectChain |-> <<>>,
   result |-> NoResult]

CheckNone ==
  [pc |-> "idle", i |-> 0, currentUrl |-> Null, redirectChain |-> <<>>,
   result |-> NoResult]

\* Mutant: the redirect loop gives up one hop early.
LoopContinuesShort(i, maxRedirects) == i < maxRedirects

\* link-scanner.ts:78  i <= maxRedirects
LoopContinues(i, maxRedirects) == i <= maxRedirects

\* link-scanner.ts:95
IsRedirectStatus(status) == status >= 300 /\ status < 400

\* link-scanner.ts:99  new URL(location, currentUrl).toString(), for a
\* Location that names a URL of the site
ResolveLocation(location, currentUrl) == location

\* Mutant: finalUrl is reported even when nothing redirected.
ReturnStatusAlwaysFinal(st, status) ==
  [st EXCEPT !.pc = "returned",
             !.result = [statusCode |-> status,
                         finalUrl |-> st.currentUrl,
                         redirectChain |-> st.redirectChain,
                         error |-> Null]]

\* link-scanner.ts:104-109
ReturnStatus(st, status) ==
  [st EXCEPT !.pc = "returned",
             !.result = [statusCode |-> status,
                         finalUrl |-> IF Len(st.redirectChain) > 0
                                        THEN st.currentUrl ELSE Null,
                         redirectChain |-> st.redirectChain,
                         error |-> Null]]

\* link-scanner.ts:116-121
ReturnTooMany(st) ==
  [st EXCEPT !.pc = "returned",
             !.result = [statusCode |-> NullStatus,
                         finalUrl |-> st.currentUrl,
                         redirectChain |-> st.redirectChain,
                         error |-> "Too many redirects"]]

\* Mutant: the outer catch is missing and the rejection escapes checkUrl.
CatchErrorRethrow(st, message) == [st EXCEPT !.pc = "threw"]

\* a catch inside the loop that goes on to the next iteration
CatchErrorRetry(st, message) ==
  IF st.i < MaxRedirects THEN [st EXCEPT !.i = @ + 1]
  ELSE [st EXCEPT !.pc = "returned",
                  !.result = [statusCode |-> NullStatus,
                              finalUrl |-> Null,
                              redirectChain |-> st.redirectChain,
                              error |-> message]]

\* link-scanner.ts:122-130  the outer catch
CatchError(st, message) ==
  [st EXCEPT !.pc = "returned",
             !.result = [statusCode |-> NullStatus,
                         finalUrl |-> Null,
                         redirectChain |-> st.redirectChain,
                         error |-> message]]

\* a loop body whose redirect test leaves out `&& followRedirects`
CheckHopIgnoresOption(st, resp, follow) ==
  LET maxRedirects == IF follow THEN MaxRedirects ELSE 0 IN
  IF resp.kind = "fail" THEN CatchError(st, resp.msg)
  ELSE IF IsRedirectStatus(resp.status) /\ resp.location # Null
    THEN LET pushed == [st EXCEPT !.redirectChain = Append(@, st.currentUrl)] IN
         IF resp.location = BadLocation THEN CatchError(pushed, "Invalid URL")
         ELSE LET next == [pushed EXCEPT
                             !.currentUrl = ResolveLocation(resp.location,
                                                            st.currentUrl),
                             !.i = st.i + 1] IN
              IF LoopContinues(next.i, maxRedirects) THEN next
              ELSE ReturnTooMany(next)
  ELSE ReturnStatus(st, resp.status)

\* One iteration of the for loop of checkUrl, given the outcome of its
\* fetch, up to the next fetch or the return.
CheckHop(st, resp, follow) ==
  LET maxRedirects == IF follow THEN MaxRedirects ELSE 0 IN
  IF resp.kind = "fail" THEN CatchError(st, resp.msg)
  ELSE IF IsRedirectStatus(resp.status) /\ follow /\ resp.location # Null
    THEN LET pushed == [st EXCEPT !.redirectChain = Append(@, st.currentUrl)] IN
         IF resp.location = BadLocation THEN CatchError(pushed, "Invalid URL")
         ELSE LET next == [pushed EXCEPT
                             !.currentUrl = ResolveLocation(resp.location,
                                                            st.currentUrl),
                             !.i = st.i + 1] IN
              IF LoopContinues(next.i, maxRedirects) THEN next
              ELSE ReturnTooMany(next)
  ELSE ReturnStatus(st, resp.status)

CheckIdle ==
  /\ followRedirects = TRUE
  /\ ck = CheckNone
  /\ ckLast = NoResponse
  /\ ckLastUrl = Null
  /\ ckRequests = 0

CheckInit ==
  /\ followRedirects \in BOOLEAN
  /\ \E url \in CheckUrls : ck = CheckStart(url)
  /\ ckLast = NoResponse
  /\ ckLastUrl = Null
  /\ ckRequests = 0

\* await fetch(currentUrl, ...) settles and the loop body handles it.
CheckFetch(resp) ==
  /\ ck.pc = "fetch"
  /\ ck' = CheckHop(ck, resp, followRedirects)
  /\ ckLast' = resp
  /\ ckLastUrl' = ck.currentUrl
  /\ ckRequests' = ckRequests + 1
  /\ UNCHANGED followRedirects

CheckStep == \E resp \in Responses(CheckUrls) : CheckFetch(resp)

\* ============================================================== asyncPool

\* Unit states: "idle" fn(item) not called; "running" fn(item) in flight;
\* "fnOk" fn's promise fulfilled, the callback of p not yet run; "pushed"
\* results.push ran, the callback of wrapped not yet run; "done"
\* executing.delete(wrapped) ran and wrapped is fulfilled; "fnErr" fn's
\* promise rejected; "dead" the rejection reached wrapped (no callback ran,
\* wrapped stays in `executing`).
UnitStates == {"idle", "running", "fnOk", "pushed", "done", "fnErr", "dead"}

InFlight == {i \in DOMAIN unit : unit[i] = "running"}

Failed == {i \in DOMAIN unit : unit[i] \in {"fnErr", "dead"}}

\* State of Promise.race(members) at the moment it is created.
RaceAtCall(members, u) ==
  IF \E i \in members : u[i] = "dead" THEN "rejected" ELSE "pending"

\* Mutant: the final Promise.all does not wait for the members.
AllAtCallNoWait(members, u) == "fulfilled"

\* State of Promise.all(members) at the moment it is created.
AllAtCall(members, u) ==
  IF \E i \in members : u[i] = "dead" THEN "rejected"
  ELSE IF \A i \in members : u[i] = "done" THEN "fulfilled"
  ELSE "pending"

\* Mutant: the pool is taken to be full one unit too late.
PoolFullOffByOne(size, k) == size > k

\* link-scanner.ts:181  if (executing.size >= concurrency)
PoolFull(size, k) == size >= k

PoolBegin(its, k) ==
  /\ items' = its
  /\ concurrency' = k
  /\ idx' = 1
  /\ poolPc' = "loop"
  /\ unit' = [i \in 1..Len(its) |-> "idle"]
  /\ executing' = {}
  /\ poolResults' = <<>>
  /\ starts' = [i \in 1..Len(its) |-> 0]
  /\ waitSet' = {}
  /\ waitState' = "none"

\* One iteration of the for-of loop: call fn(item), chain p and wrapped,
\* add wrapped to executing, and await Promise.race when the pool is full.
PoolStartUnit ==
  /\ poolPc = "loop"
  /\ idx <= Len(items)
  /\ unit' = [unit EXCEPT ![idx] = "running"]
  /\ starts' = [starts EXCEPT ![idx] = @ + 1]
  /\ executing' = executing \cup {idx}
  /\ idx' = idx + 1
  /\ IF PoolFull(Cardinality(executing'), concurrency)
       THEN /\ poolPc' = "race"
            /\ waitSet' = executing'
            /\ waitState' = RaceAtCall(executing', unit')
       ELSE /\ poolPc' = "loop"
            /\ UNCHANGED <<waitSet, waitState>>
  /\ UNCHANGED <<items, concurrency, poolResults>>

\* The loop is exhausted: await Promise.all(executing).
PoolLoopEnd ==
  /\ poolPc = "loop"
  /\ idx > Len(items)
  /\ poolPc' = "all"
  /\ waitSet' = executing
  /\ waitState' = AllAtCall(executing, unit)
  /\ UNCHANGED <<items, concurrency, idx, unit, executing, poolResults, starts>>

\* fn(item)'s promise fulfils.
UnitFulfil(i) ==
  /\ unit[i] = "running"
  /\ unit' = [unit EXCEPT ![i] = "fnOk"]
  /\ UNCHANGED <<items, concurrency, idx, poolPc, executing, poolResults,
                 starts, waitSet, waitState>>

\* fn(item)'s promise rejects.
UnitReject(i) ==
  /\ unit[i] = "running"
  /\ unit' = [unit EXCEPT ![i] = "fnErr"]
  /\ UNCHANGED <<items, concurrency, idx, poolPc, executing, poolResults,
                 starts, waitSet, waitState>>

\* The callback of p: results.push(result).
PushResult(i) ==
  /\ unit[i] = "fnOk"
  /\ unit' = [unit EXCEPT ![i] = "pushed"]
  /\ poolResults' = Append(poolResults, i)
  /\ UNCHANGED <<items, concurrency, idx, poolPc, executing, starts,
                 waitSet, waitState>>

\* The awaited aggregate after wrapped promise i has settled.
WaitAfter(i, u) ==
  IF waitState # "pending" \/ i \notin waitSet THEN waitState
  ELSE IF u[i] = "dead" THEN "rejected"
  ELSE IF poolPc = "race" THEN "fulfilled"
  ELSE IF \A j \in waitSet : u[j] = "done" THEN "fulfilled"
  ELSE "pending"

\* The callback of wrapped: executing.delete(wrapped); wrapped fulfils.
DeleteExecuting(i) ==
  /\ unit[i] = "pushed"
  /\ unit' = [unit EXCEPT ![i] = "done"]
  /\ executing' = executing \ {i}
  /\ waitState' = WaitAfter(i, unit')
  /\ UNCHANGED <<items, concurrency, idx, poolPc, poolResults, starts, waitSet>>

\* A rejection of fn(item) passes through p to wrapped: neither callback
\* runs, and wrapped is not removed from executing.
PropagateReject(i) ==
  /\ unit[i] = "fnErr"
  /\ unit' = [unit EXCEPT ![i] = "dead"]
  /\ waitState' = WaitAfter(i, unit')
  /\ UNCHANGED <<items, concurrency, idx, poolPc, executing, poolResults,
                 starts, waitSet>>

\* await Promise.race(executing) resumes, or throws out of asyncPool.
RaceResume ==
  /\ poolPc = "race"
  /\ waitState \in {"fulfilled", "rejected"}
  /\ poolPc' = IF waitState = "fulfilled" THEN "loop" ELSE "threw"
  /\ waitState' = "none"
  /\ waitSet' = {}
  /\ UNCHANGED <<items, concurrency, idx, unit, executing, poolResults, starts>>

\* await Promise.all(executing) resumes and asyncPool returns results, or
\* throws.
AllResume ==
  /\ poolPc = "all"
  /\ waitState \in {"fulfilled", "rejected"}
  /\ poolPc' = IF waitState = "fulfilled" THEN "returned" ELSE "threw"
  /\ waitState' = "none"
  /\ waitSet' = {}
  /\ UNCHANGED <<items, concurrency, idx, unit, executing, poolResults, starts>>

PoolIdle ==
  /\ items = <<>>
  /\ concurrency = 1
  /\ idx = 1
  /\ poolPc = "idle"
  /\ unit = <<>>
  /\ executing = {}
  /\ poolResults = <<>>
  /\ starts = <<>>
  /\ waitSet = {}
  /\ waitState = "none"

PoolStep ==
  \/ PoolStartUnit
  \/ PoolLoopEnd
  \/ \E i \in DOMAIN unit : UnitFulfil(i)
  \/ \E i \in DOMAIN unit : UnitReject(i)
  \/ \E i \in DOMAIN unit : PushResult(i)
  \/ \E i \in DOMAIN unit : DeleteExecuting(i)
  \/ \E i \in DOMAIN unit : PropagateReject(i)
  \/ RaceResume
  \/ AllResume


\* =============================================================== scanSite

RootUrl == "/"         \* normalizeUrl(rootUrl)

\* The excludePatterns explored, each given by the URLs it matches.
ExcludeChoices == {{}} \cup {{u} : u \in Urls}

\* Mutant: the page budget is compared with <= instead of <.
LoopCondOffByOne(queue, seen, limit) ==
  Len(queue) > 0 /\ Cardinality(seen) <= limit

\* Mutant: the loop ignores the page budget.
LoopCondNoBudget(queue, seen, limit) == Len(queue) > 0

\* link-scanner.ts:217  toVisit.length > 0 && visited.size < opts.maxPages
LoopCond(queue, seen, limit) == Len(queue) > 0 /\ Cardinality(seen) < limit

\* link-scanner.ts:219-220  the two `continue` tests
Skipped(url, seen, excl) == url \in seen \/ url \in excl

InSeq(x, q) == \E i \in 1..Len(q) : q[i] = x

Hrefs(links) == {links[i].href : i \in 1..Len(links)}

\* a link map keyed by the page, holding the hrefs found on it
RecordLinkSwapped(links, link, url) ==
  IF url \in Hrefs(links)
    THEN [i \in 1..Len(links) |->
            IF links[i].href = url /\ ~InSeq(link, links[i].sourcePages)
              THEN [links[i] EXCEPT !.sourcePages = Append(@, link)]
              ELSE links[i]]
    ELSE Append(links, [href |-> url, sourcePages |-> <<link>>])

\* link-scanner.ts:234-237  allLinks.get(link).add(url), creating the entry
RecordLink(links, link, url) ==
  IF link \in Hrefs(links)
    THEN [i \in 1..Len(links) |->
            IF links[i].href = link /\ ~InSeq(url, links[i].sourcePages)
              THEN [links[i] EXCEPT !.sourcePages = Append(@, url)]
              ELSE links[i]]
    ELSE Append(links, [href |-> link, sourcePages |-> <<url>>])

\* an enqueue test that leaves out toVisit.includes
EnqueueUnlessVisited(queue, link, seen) ==
  IF link \notin seen THEN Append(queue, link) ELSE queue

\* link-scanner.ts:239-241
Enqueue(queue, link, seen) ==
  IF link \notin seen /\ ~InSeq(link, queue) THEN Append(queue, link) ELSE queue

\* link-scanner.ts:233-242  the for loop over the extracted links
RECURSIVE AddLinks(_, _, _, _)
AddLinks(found, url, seen, st) ==
  IF found = <<>> THEN st
  ELSE AddLinks(Tail(found), url, seen,
                [links |-> RecordLink(st.links, Head(found), url),
                 queue |-> Enqueue(st.queue, Head(found), seen)])

\* ---- extractLinks
\* URLs of other origins: another host, another scheme, another port
OtherOrigin == "https://other.example"

OtherSite == ("/" :> "https://other.example/") @@ ("/a" :> "https://other.example/a")
               @@ ("/b" :> "https://other.example/b")

OtherScheme == "http://example.com/a"
OtherPort == "https://example.com:8443/a"

ForeignUrls == {OtherSite[u] : u \in Urls} \cup {OtherScheme, OtherPort}

\* new URL(url).origin, for a URL that parses
OriginOf(url) ==
  IF url \in Urls THEN Origin
  ELSE IF url = OtherScheme THEN "http://example.com"
  ELSE IF url = OtherPort THEN "https://example.com:8443"
  ELSE OtherOrigin

\* href attributes: relative paths, absolute URLs, one that new URL()
\* rejects, and the empty attribute
AbsoluteB == "https://example.com/b"
EmptyHref == ""

AnchorHrefs ==
  Urls \cup {AbsoluteB, OtherSite["/a"], OtherScheme, OtherPort, BadLocation,
             EmptyHref}

LandingOrigins == {Origin, OtherOrigin}

\* link-scanner.ts:148-150  new URL(href, pageUrl).toString(), for an href
\* that resolves; the result is named by its path when it is of Origin
Resolve(href, pageOrigin) ==
  IF href \in Urls
    THEN (IF pageOrigin = Origin THEN href ELSE OtherSite[href])
  ELSE IF href = AbsoluteB THEN "/b"
  ELSE href

\* an isInternalUrl that accepts every URL that parses
isInternalUrlAny(url, baseOrigin) == url # BadLocation

\* link-scanner.ts:56-63
isInternalUrl(url, baseOrigin) ==
  IF url = BadLocation THEN FALSE ELSE OriginOf(url) = baseOrigin

\* link-scanner.ts:143-154  the loop over the anchors
RECURSIVE ResolveAnchors(_, _)
ResolveAnchors(anchors, pageOrigin) ==
  IF anchors = <<>> THEN <<>>
  ELSE (IF Head(anchors) = EmptyHref \/ Head(anchors) = BadLocation
          THEN <<>>
          ELSE <<Resolve(Head(anchors), pageOrigin)>>)
         \o ResolveAnchors(Tail(anchors), pageOrigin)

\* link-scanner.ts:136-159
extractLinks(anchors, pageOrigin, baseOrigin) ==
  LET hrefs == ResolveAnchors(anchors, pageOrigin)
      Internal(href) == isInternalUrl(href, baseOrigin)
  IN SelectSeq(hrefs, Internal)

AnchorLists == UNION {[1..n -> AnchorHrefs] : n \in 0..MaxAnchors}

NoPage == [origin |-> Null, anchors |-> <<>>]

\* What extractLinks can return for one page.
LinkLists == UNION {[1..n -> Urls] : n \in 0..MaxLinksPerPage}

NoScanResult ==
  [totalLinks |-> 0, pagesCrawled |-> 0, brokenLinks |-> <<>>,
   redirectLinks |-> <<>>, serverErrors |-> <<>>, connectionErrors |-> <<>>]

ScanIdle ==
  /\ maxPages = 0
  /\ excluded = {}
  /\ visited = {}
  /\ toVisit = <<>>
  /\ allLinks = <<>>
  /\ scanPc = "idle"
  /\ curUrl = Null
  /\ results = <<>>
  /\ scanResult = NoScanResult
  /\ gotoCalls = [u \in Urls |-> 0]
  /\ checkCalls = [u \in Urls |-> 0]
  /\ crawlErrors = {}
  /\ curPage = NoPage

\* link-scanner.ts:200-206
ScanInit(budgets, excludeChoices) ==
  /\ maxPages \in budgets
  /\ excluded \in excludeChoices
  /\ visited = {}
  /\ toVisit = <<RootUrl>>
  /\ allLinks = <<>>
  /\ scanPc = "crawl"
  /\ curUrl = Null
  /\ results = <<>>
  /\ scanResult = NoScanResult
  /\ gotoCalls = [u \in Urls |-> 0]
  /\ checkCalls = [u \in Urls |-> 0]
  /\ crawlErrors = {}
  /\ curPage = NoPage

\* a `continue` that leaves the URL at the head of toVisit
CrawlSkipKeepsUrl ==
  /\ scanPc = "crawl"
  /\ LoopCond(toVisit, visited, maxPages)
  /\ Skipped(Head(toVisit), visited, excluded)
  /\ curPage' = NoPage
  /\ UNCHANGED <<maxPages, excluded, visited, toVisit, allLinks, scanPc,
                 curUrl, results, scanResult, gotoCalls, checkCalls,
                 crawlErrors>>
  /\ UNCHANGED <<poolVars, checkVars>>

\* link-scanner.ts:218-220  shift a URL that is visited or excluded
CrawlSkip ==
  /\ scanPc = "crawl"
  /\ LoopCond(toVisit, visited, maxPages)
  /\ Skipped(Head(toVisit), visited, excluded)
  /\ toVisit' = Tail(toVisit)
  /\ curPage' = NoPage
  /\ UNCHANGED <<maxPages, excluded, visited, allLinks, scanPc, curUrl,
                 results, scanResult, gotoCalls, checkCalls,
                 crawlErrors>>
  /\ UNCHANGED <<poolVars, checkVars>>

\* a loop that starts the next page without awaiting the one it is rendering
CrawlVisitOverlapping ==
  /\ scanPc \in {"crawl", "render"}
  /\ LoopCond(toVisit, visited, maxPages)
  /\ ~Skipped(Head(toVisit), visited, excluded)
  /\ toVisit' = Tail(toVisit)
  /\ visited' = visited \cup {Head(toVisit)}
  /\ curUrl' = Head(toVisit)
  /\ gotoCalls' = [gotoCalls EXCEPT ![Head(toVisit)] = @ + 1]
  /\ scanPc' = "render"
  /\ curPage' = NoPage
  /\ UNCHANGED <<maxPages, excluded, allLinks, results, scanResult, checkCalls,
                 crawlErrors>>
  /\ UNCHANGED <<poolVars, checkVars>>

\* link-scanner.ts:218-230  shift a URL, mark it visited, navigate to it
CrawlVisit ==
  /\ scanPc = "crawl"
  /\ LoopCond(toVisit, visited, maxPages)
  /\ ~Skipped(Head(toVisit), visited, excluded)
  /\ toVisit' = Tail(toVisit)
  /\ visited' = visited \cup {Head(toVisit)}
  /\ curUrl' = Head(toVisit)
  /\ gotoCalls' = [gotoCalls EXCEPT ![Head(toVisit)] = @ + 1]
  /\ scanPc' = "render"
  /\ curPage' = NoPage
  /\ UNCHANGED <<maxPages, excluded, allLinks, results, scanResult, checkCalls,
                 crawlErrors>>
  /\ UNCHANGED <<poolVars, checkVars>>

\* link-scanner.ts:232-244  the page rendered and extractLinks returned
RenderOk(found) ==
  /\ scanPc = "render"
  /\ LET st == AddLinks(found, curUrl, visited,
                        [links |-> allLinks, queue |-> toVisit]) IN
       /\ allLinks' = st.links
       /\ toVisit' = st.queue
  /\ scanPc' = "crawl"
  /\ UNCHANGED <<maxPages, excluded, visited, curUrl, results, scanResult,
                 gotoCalls, checkCalls,
                 crawlErrors, curPage>>
  /\ UNCHANGED <<poolVars, checkVars>>

\* link-scanner.ts:224-228  page.goto resolved: the page is at a URL of
\* origin `landed` and holds anchors with these href attributes
PageLoaded(anchors, landed) ==
  /\ scanPc = "render"
  /\ curPage' = [origin |-> landed, anchors |-> anchors]
  /\ scanPc' = "loaded"
  /\ UNCHANGED <<maxPages, excluded, visited, toVisit, allLinks, curUrl,
                 results, scanResult, gotoCalls, checkCalls, crawlErrors>>
  /\ UNCHANGED <<poolVars, checkVars>>

\* link-scanner.ts:230-244  extractLinks returned; its links are recorded
ExtractLinks ==
  /\ scanPc = "loaded"
  /\ LET links == extractLinks(curPage.anchors, curPage.origin, Origin)
         st == AddLinks(links, curUrl, visited,
                        [links |-> allLinks, queue |-> toVisit]) IN
       /\ allLinks' = st.links
       /\ toVisit' = st.queue
  /\ scanPc' = "crawl"
  /\ UNCHANGED <<maxPages, excluded, visited, curUrl, results, scanResult,
                 gotoCalls, checkCalls, crawlErrors, curPage>>
  /\ UNCHANGED <<poolVars, checkVars>>

\* a catch that takes the page out of visited again
RenderFailDropsPage ==
  /\ scanPc \in {"render", "loaded"}
  /\ crawlErrors' = crawlErrors \cup {curUrl}
  /\ visited' = visited \ {curUrl}
  /\ scanPc' = "crawl"
  /\ UNCHANGED <<maxPages, excluded, toVisit, allLinks, curUrl,
                 results, scanResult, gotoCalls, checkCalls, curPage>>
  /\ UNCHANGED <<poolVars, checkVars>>

\* link-scanner.ts:245-248  newPage, goto or extractLinks threw
RenderFail ==
  /\ scanPc \in {"render", "loaded"}
  /\ crawlErrors' = crawlErrors \cup {curUrl}
  /\ scanPc' = "crawl"
  /\ UNCHANGED <<maxPages, excluded, visited, toVisit, allLinks, curUrl,
                 results, scanResult, gotoCalls, checkCalls, curPage>>
  /\ UNCHANGED <<poolVars, checkVars>>

\* Mutant: only the hrefs of visited pages are handed to the verifier.
IsVisitedEntry(entry) == entry.href \in visited

LinkEntriesVisitedOnly(links) == SelectSeq(links, IsVisitedEntry)

\* link-scanner.ts:261  Array.from(allLinks.entries())
LinkEntries(links) == links

\* link-scanner.ts:217, 251-264  the loop ends; asyncPool is called
CrawlExit ==
  /\ scanPc = "crawl"
  /\ ~LoopCond(toVisit, visited, maxPages)
  /\ scanPc' = "check"
  /\ PoolBegin(LinkEntries(allLinks), concurrency)
  /\ curPage' = NoPage
  /\ UNCHANGED <<maxPages, excluded, visited, toVisit, allLinks, curUrl,
                 results, scanResult, gotoCalls, checkCalls,
                 crawlErrors>>
  /\ UNCHANGED checkVars

\* link-scanner.ts:264-265  asyncPool calls the unit, which calls checkUrl
ScanStartUnit ==
  /\ scanPc = "check"
  /\ PoolStartUnit
  /\ checkCalls' = [checkCalls EXCEPT ![items[idx].href] = @ + 1]
  /\ UNCHANGED <<maxPages, excluded, visited, toVisit, allLinks, scanPc,
                 curUrl, results, scanResult, gotoCalls,
                 crawlErrors, curPage>>
  /\ UNCHANGED checkVars

\* The server behaviours explored for one check within a scan: `hops`
\* redirects to `target`, then the response `final`.
ScanHops == {0, 1, MaxRedirects + 1}

ScanFinals ==
  {r \in Responses({}) : r.location = Null /\ r.status # 302
                         /\ r.msg # "This operation was aborted"}

RedirectTo(target) ==
  [kind |-> "http", status |-> 302, location |-> target, msg |-> Null]

\* checkUrl run to its return against one server behaviour.
RECURSIVE CheckUrlRun(_, _, _, _, _)
CheckUrlRun(st, hops, target, final, follow) ==
  IF st.pc # "fetch" THEN st
  ELSE IF hops = 0 THEN CheckHop(st, final, follow)
  ELSE CheckUrlRun(CheckHop(st, RedirectTo(target), follow), hops - 1,
                   target, final, follow)

\* a result that names the last page that referenced the href
LinkCheckResultLastSource(entry, check) ==
  [sourcePage |-> entry.sourcePages[Len(entry.sourcePages)],
   href |-> entry.href,
   resolvedUrl |-> entry.href,
   statusCode |-> check.statusCode,
   isRedirect |-> Len(check.redirectChain) > 0,
   finalUrl |-> check.finalUrl,
   redirectChain |-> check.redirectChain,
   error |-> check.error]

\* link-scanner.ts:266-275
LinkCheckResult(entry, check) ==
  [sourcePage |-> entry.sourcePages[1],
   href |-> entry.href,
   resolvedUrl |-> entry.href,
   statusCode |-> check.statusCode,
   isRedirect |-> Len(check.redirectChain) > 0,
   finalUrl |-> check.finalUrl,
   redirectChain |-> check.redirectChain,
   error |-> check.error]

\* link-scanner.ts:265-277  checkUrl returns; the unit pushes its result
\* and its promise fulfils
CheckDone(i, hops, target, final) ==
  /\ scanPc = "check"
  /\ unit[i] = "running"
  /\ LET run == CheckUrlRun(CheckStart(items[i].href), hops, target, final,
                            followRedirects) IN
       results' = Append(results, LinkCheckResult(items[i], run.result))
  /\ unit' = [unit EXCEPT ![i] = "fnOk"]
  /\ UNCHANGED <<items, concurrency, idx, poolPc, executing, poolResults,
                 starts, waitSet, waitState>>
  /\ UNCHANGED <<maxPages, excluded, visited, toVisit, allLinks, scanPc,
                 curUrl, scanResult, gotoCalls, checkCalls,
                 crawlErrors, curPage>>
  /\ UNCHANGED checkVars

\* a serverErrors filter that takes every status from 400
IsServerErrorFrom400(r) == r.statusCode # NullStatus /\ r.statusCode >= 400

\* a brokenLinks filter that takes every status from 400
IsBrokenFrom400(r) == r.statusCode >= 400

\* link-scanner.ts:279-286
IsBroken(r) == r.statusCode = 404
IsRedirectLink(r) == r.isRedirect
IsServerError(r) == r.statusCode # NullStatus /\ r.statusCode >= 500
IsConnectionError(r) == r.statusCode = NullStatus /\ r.error # Null

\* link-scanner.ts:279-297  asyncPool returned; classify and return
Classify ==
  /\ scanPc = "check"
  /\ poolPc = "returned"
  /\ scanResult' = [totalLinks |-> Len(results),
                    pagesCrawled |-> Cardinality(visited),
                    brokenLinks |-> SelectSeq(results, IsBroken),
                    redirectLinks |-> SelectSeq(results, IsRedirectLink),
                    serverErrors |-> SelectSeq(results, IsServerError),
                    connectionErrors |-> SelectSeq(results, IsConnectionError)]
  /\ scanPc' = "done"
  /\ UNCHANGED <<maxPages, excluded, visited, toVisit, allLinks, curUrl,
                 results, gotoCalls, checkCalls,
                 crawlErrors, curPage>>
  /\ UNCHANGED <<poolVars, checkVars>>

\* link-scanner.ts:211-215  chromium.launch or newContext rejects: the
\* finally block runs and scanSite rejects
ScanFail ==
  /\ scanPc = "crawl"
  /\ visited = {}
  /\ curUrl = Null
  /\ scanPc' = "failed"
  /\ UNCHANGED <<maxPages, excluded, visited, toVisit, allLinks, curUrl,
                 results, scanResult, gotoCalls, checkCalls, crawlErrors,
                 curPage>>
  /\ UNCHANGED <<poolVars, checkVars>>

\* Steps of asyncPool that touch none of scanSite's variables.
ScanPoolStep ==
  /\ scanPc = "check"
  /\ \/ PoolLoopEnd
     \/ \E i \in DOMAIN unit : PushResult(i)
     \/ \E i \in DOMAIN unit : DeleteExecuting(i)
     \/ RaceResume
     \/ AllResume
  /\ UNCHANGED <<scanVars, checkVars>>

ScanPoolInit(limits) ==
  /\ ck = CheckNone
  /\ ckLast = NoResponse
  /\ ckLastUrl = Null
  /\ ckRequests = 0
  /\ items = <<>>
  /\ concurrency \in limits
  /\ idx = 1
  /\ poolPc = "idle"
  /\ unit = <<>>
  /\ executing = {}
  /\ poolResults = <<>>
  /\ starts = <<>>
  /\ waitSet = {}
  /\ waitState = "none"

ScanStep ==
  \/ CrawlSkip
  \/ CrawlVisit
  \/ RenderFail
  \/ CrawlExit
  \/ ScanStartUnit
  \/ ScanPoolStep
  \/ Classify

\* ------- scanSite: any site, a healthy server, links checked one at a time
Ok200 == [kind |-> "http", status |-> 200, location |-> Null, msg |-> Null]

\* no command of the CLI is running
CliIdle == cli = [pc |-> "idle"]

PureIdle ==
  NormIdle /\ FixIdle /\ SimIdle /\ ApplyIdle /\ ClassifyIdle /\ CliIdle

\* scanSite touches neither the harnesses of the pure functions nor the
\* state of the command that called it
PureFrame == UNCHANGED <<pureVars, cli>>

CrawlSpecInit ==
  /\ PureIdle
  /\ ScanInit(1..MaxPagesOpt, ExcludeChoices)
  /\ followRedirects = TRUE
  /\ ScanPoolInit({1})

CrawlNext ==
  \/ CrawlSkip /\ PureFrame
  \/ CrawlVisit /\ PureFrame
  \/ RenderFail /\ PureFrame
  \/ CrawlExit /\ PureFrame
  \/ ScanStartUnit /\ PureFrame
  \/ ScanPoolStep /\ PureFrame
  \/ Classify /\ PureFrame
  \/ \E found \in LinkLists : RenderOk(found) /\ PureFrame
  \/ \E i \in DOMAIN unit : CheckDone(i, 0, RootUrl, Ok200) /\ PureFrame

SpecCrawl == CrawlSpecInit /\ [][CrawlNext]_vars

\* Every await of scanSite settles: page.goto resolves or rejects within its
\* timeout, and fetch within the abort timer of checkUrl; between awaits the
\* loop runs on.
SpecCrawlFair == SpecCrawl /\ WF_vars(CrawlNext)

\* ---- scanSite: pages given by their anchors, a healthy server, two pages
ExtractBudgets == {1, 2}

ExtractExcludeChoices == {{}, {"/b"}}

ExtractSpecInit ==
  /\ PureIdle
  /\ ScanInit(ExtractBudgets, ExtractExcludeChoices)
  /\ followRedirects = TRUE
  /\ ScanPoolInit({1})

ExtractNext ==
  \/ CrawlSkip /\ PureFrame
  \/ CrawlVisit /\ PureFrame
  \/ RenderFail /\ PureFrame
  \/ CrawlExit /\ PureFrame
  \/ ScanStartUnit /\ PureFrame
  \/ ScanPoolStep /\ PureFrame
  \/ Classify /\ PureFrame
  \/ \E anchors \in AnchorLists, landed \in LandingOrigins :
        PageLoaded(anchors, landed) /\ PureFrame
  \/ ExtractLinks /\ PureFrame
  \/ \E i \in DOMAIN unit : CheckDone(i, 0, RootUrl, Ok200) /\ PureFrame

SpecExtract == ExtractSpecInit /\ [][ExtractNext]_vars

\* ------------------------- scanSite: a two-link site, any server behaviour
ScanLinkLists == {<<"/a", "/b">>, <<"/b">>}

ScanExcludeChoices == {{}, {"/b"}}

ScanBudgets == {1, 2}

ScanSpecInit ==
  /\ PureIdle
  /\ ScanInit(ScanBudgets, ScanExcludeChoices)
  /\ followRedirects \in BOOLEAN
  /\ ScanPoolInit(1..MaxConcurrency)

ScanNext ==
  \/ CrawlSkip /\ PureFrame
  \/ CrawlVisit /\ PureFrame
  \/ RenderFail /\ PureFrame
  \/ CrawlExit /\ PureFrame
  \/ ScanStartUnit /\ PureFrame
  \/ ScanPoolStep /\ PureFrame
  \/ Classify /\ PureFrame
  \/ \E found \in ScanLinkLists : RenderOk(found) /\ PureFrame
  \/ \E i \in DOMAIN unit, hops \in ScanHops, final \in ScanFinals :
        CheckDone(i, hops, RootUrl, final) /\ PureFrame

SpecScan == ScanSpecInit /\ [][ScanNext]_vars

\* ------------------------------------- the scan and fix commands of the CLI
\* a URL of the scan as the fix engine's URL string
UrlOf(name) ==
  IF name = "/" THEN <<Origin, "/">>
  ELSE IF name = "/a" THEN <<Origin, "/", "a">>
  ELSE IF name = "/b" THEN <<Origin, "/", "b">>
  ELSE NoUrl

\* a LinkCheckResult as computeFixes reads it
FixerView(r) ==
  [href |-> UrlOf(r.href), sourcePage |-> UrlOf(r.sourcePage),
   finalUrl |-> UrlOf(r.finalUrl)]

FixerViews(rs) == [i \in 1..Len(rs) |-> FixerView(rs[i])]

\* Array.from(new Set(pages))
RECURSIVE Distinct(_, _)
Distinct(pages, seen) ==
  IF pages = <<>> THEN seen
  ELSE Distinct(Tail(pages),
                IF InSeq(Head(pages), seen) THEN seen
                ELSE Append(seen, Head(pages)))

\* part_000:296-308  the source pages of every flagged link
GoodUrls(result) ==
  LET flagged == result.brokenLinks \o result.redirectLinks
                   \o result.serverErrors \o result.connectionErrors
  IN Distinct([i \in 1..Len(flagged) |-> UrlOf(flagged[i].sourcePage)], <<>>)

\* part_000:248-251  --min-confidence, default "0.5"
CliMinConfidence == Frac(5, 10)

\* reporter.ts:113-122
TotalIssues(result) ==
  Len(result.brokenLinks) + Len(result.serverErrors)
    + Len(result.connectionErrors)

AllHealthy == "All links healthy."
IssuesFound == "Total issues"

Summary(result) == IF TotalIssues(result) = 0 THEN AllHealthy ELSE IssuesFound

\* part_000:215  brokenLinks.length > 0 || serverErrors.length > 0
ExitsWithOne(result) ==
  Len(result.brokenLinks) > 0 \/ Len(result.serverErrors) > 0

Commands == {"scan", "fix"}

CliInit == \E command \in Commands : cli = [pc |-> "running", command |-> command]

\* part_000:196-217  scanSite resolved: report, then the exit code
CommandScan ==
  /\ cli.pc = "running"
  /\ cli.command = "scan"
  /\ scanPc = "done"
  /\ cli' = [pc |-> "exited", command |-> "scan",
             summary |-> Summary(scanResult),
             exitCode |-> IF ExitsWithOne(scanResult) THEN 1 ELSE 0]

\* part_000:261-362  scanSite resolved: compute and report the fixes
CommandFix ==
  /\ cli.pc = "running"
  /\ cli.command = "fix"
  /\ scanPc = "done"
  /\ \E brokenLinks \in {FixerViews(scanResult.brokenLinks)},
        redirectLinks \in {FixerViews(scanResult.redirectLinks)},
        goodUrls \in {GoodUrls(scanResult)} :
       \E fixes \in {computeFixes(brokenLinks, goodUrls, redirectLinks,
                                  CliMinConfidence)} :
         cli' = [pc |-> "exited", command |-> "fix",
                 summary |-> Summary(scanResult),
                 fixes |-> fixes,
                 redirects |-> fixesToRedirects(fixes, CliMinConfidence),
                 exitCode |-> 0]

\* part_000:218-224, 363-369  scanSite rejected
CommandCatch ==
  /\ cli.pc = "running"
  /\ scanPc = "failed"
  /\ cli' = [pc |-> "exited", command |-> cli.command,
             summary |-> IF cli.command = "scan" THEN "Scan failed:"
                         ELSE "Fix failed:",
             exitCode |-> 2]

CliSpecInit ==
  /\ NormIdle /\ FixIdle /\ SimIdle /\ ApplyIdle /\ ClassifyIdle
  /\ CliInit
  /\ ScanInit(ScanBudgets, ScanExcludeChoices)
  /\ cli.command = "fix" => excluded = {}
  /\ followRedirects = TRUE
  /\ ScanPoolInit(1..MaxConcurrency)

CliFrame == UNCHANGED <<poolVars, checkVars, scanVars, pureVars>>

CliNext ==
  \/ CrawlSkip /\ PureFrame
  \/ CrawlVisit /\ PureFrame
  \/ RenderFail /\ PureFrame
  \/ CrawlExit /\ PureFrame
  \/ ScanStartUnit /\ PureFrame
  \/ ScanPoolStep /\ PureFrame
  \/ Classify /\ PureFrame
  \/ ScanFail /\ PureFrame
  \/ \E found \in ScanLinkLists : RenderOk(found) /\ PureFrame
  \/ \E i \in DOMAIN unit, hops \in ScanHops, final \in ScanFinals :
        CheckDone(i, hops, RootUrl, final) /\ PureFrame
  \/ CommandScan /\ CliFrame
  \/ CommandFix /\ CliFrame
  \/ CommandCatch /\ CliFrame

SpecCli == CliSpecInit /\ [][CliNext]_vars

\* ----------------------------------------------- checkUrl on its own
CheckSpecInit == PoolIdle /\ ScanIdle /\ CheckInit /\ PureIdle

CheckNext == CheckStep /\ UNCHANGED <<poolVars, scanVars, pureVars, cli>>

SpecCheck == CheckSpecInit /\ [][CheckNext]_vars

\* link-scanner.ts:79-80  every fetch settles: it resolves, rejects, or is
\* aborted by the timer
SpecCheckFair == SpecCheck /\ WF_vars(CheckNext)

\* ---------------------------------------------- asyncPool on its own
PoolInit ==
  /\ PureIdle
  /\ CheckIdle
  /\ ScanIdle
  /\ \E n \in 0..MaxItems, k \in 1..MaxConcurrency :
       /\ items = [i \in 1..n |-> i]
       /\ concurrency = k
       /\ idx = 1
       /\ poolPc = "loop"
       /\ unit = [i \in 1..n |-> "idle"]
       /\ executing = {}
       /\ poolResults = <<>>
       /\ starts = [i \in 1..n |-> 0]
       /\ waitSet = {}
       /\ waitState = "none"

PoolFrame == UNCHANGED <<checkVars, scanVars, pureVars, cli>>

PoolNext ==
  \/ PoolStartUnit /\ PoolFrame
  \/ PoolLoopEnd /\ PoolFrame
  \/ \E i \in DOMAIN unit : UnitFulfil(i) /\ PoolFrame
  \/ \E i \in DOMAIN unit : UnitReject(i) /\ PoolFrame
  \/ \E i \in DOMAIN unit : PushResult(i) /\ PoolFrame
  \/ \E i \in DOMAIN unit : DeleteExecuting(i) /\ PoolFrame
  \/ \E i \in DOMAIN unit : PropagateReject(i) /\ PoolFrame
  \/ RaceResume /\ PoolFrame
  \/ AllResume /\ PoolFrame

SpecPool == PoolInit /\ [][PoolNext]_vars

\* ------------------------------------------------ normalizeUrl on its own
NormSpecInit ==
  PoolIdle /\ ScanIdle /\ CheckIdle /\ NormInit /\ FixIdle /\ SimIdle
    /\ ApplyIdle /\ ClassifyIdle /\ CliIdle

NormFrame == UNCHANGED <<poolVars, checkVars, scanVars, fx, sm, ap, ce, cli>>

NormNext ==
  \/ NormalizeOnce /\ NormFrame
  \/ NormalizeTwice /\ NormFrame

SpecNorm == NormSpecInit /\ [][NormNext]_vars

\* --------------------------- computeFixes and fixesToRedirects on their own
FixSpecInit ==
  PoolIdle /\ ScanIdle /\ CheckIdle /\ NormIdle /\ FixInit /\ SimIdle
    /\ ApplyIdle /\ ClassifyIdle /\ CliIdle

FixFrame == UNCHANGED <<poolVars, checkVars, scanVars, nz, sm, ap, ce, cli>>

FixNext ==
  \/ ComputeFixes /\ FixFrame
  \/ \E floor \in RedirectFloors : FixesToRedirects(floor) /\ FixFrame

SpecFix == FixSpecInit /\ [][FixNext]_vars

\* ------------------------------- pathSimilarity and levenshtein on their own
SimSpecInit ==
  PoolIdle /\ ScanIdle /\ CheckIdle /\ NormIdle /\ FixIdle /\ SimInit
    /\ ApplyIdle /\ ClassifyIdle /\ CliIdle

SimFrame == UNCHANGED <<poolVars, checkVars, scanVars, nz, fx, ap, ce, cli>>

SimNext ==
  \/ PathSimilarity /\ SimFrame
  \/ Levenshtein /\ SimFrame

SpecSim == SimSpecInit /\ [][SimNext]_vars

\* --------------------------------------- applyFixesToContent on its own
ApplySpecInit ==
  PoolIdle /\ ScanIdle /\ CheckIdle /\ NormIdle /\ FixIdle /\ SimIdle
    /\ ApplyInit /\ ClassifyIdle /\ CliIdle

ApplyFrame ==
  UNCHANGED <<poolVars, checkVars, scanVars, nz, fx, sm, ce, cli>>

ApplyNext == ApplyFixesToContent /\ ApplyFrame

SpecApply == ApplySpecInit /\ [][ApplyNext]_vars

\* --------------------------------------------- classifyError on its own
ClassifySpecInit ==
  PoolIdle /\ ScanIdle /\ CheckIdle /\ NormIdle /\ FixIdle /\ SimIdle
    /\ ApplyIdle /\ ClassifyInit /\ CliIdle

ClassifyFrame ==
  UNCHANGED <<poolVars, checkVars, scanVars, nz, fx, sm, ap, cli>>

ClassifyNext == ClassifyError /\ ClassifyFrame

SpecClassify == ClassifySpecInit /\ [][ClassifyNext]_vars

\* ================================================================= claims

TooManyRedirects == "Too many redirects"

\* C1: with concurrency >= 1, in every reachable state of asyncPool the
\* number of units of work started and not yet completed is at most the
\* concurrency limit.
C1_InFlightAtMostK == Cardinality(InFlight) <= concurrency

\* The pool is full (k >= 2 units in flight) while items remain to start.
C1_Witness ==
  /\ poolPc = "race"
  /\ concurrency >= 2
  /\ Cardinality(InFlight) = concurrency
  /\ idx <= Len(items)

\* C2: asyncPool returns only after every item's unit was started exactly
\* once and has completed; no unit is started twice; when no unit failed the
\* returned results hold exactly one entry per item and nothing is in flight.
C2_ReturnsAfterAll ==
  /\ \A i \in DOMAIN starts : starts[i] <= 1
  /\ poolPc = "returned" =>
       /\ \A i \in 1..Len(items) :
            starts[i] = 1 /\ unit[i] \notin {"idle", "running"}
       /\ Failed = {} =>
            /\ Len(poolResults) = Len(items)
            /\ \A i \in 1..Len(items) :
                 Cardinality({j \in 1..Len(poolResults) : poolResults[j] = i}) = 1
            /\ InFlight = {}

\* asyncPool returned for more items than the concurrency limit.
C2_Witness ==
  /\ poolPc = "returned"
  /\ Len(items) > concurrency
  /\ Len(poolResults) = Len(items)

\* C3: a failing unit of work does not unwind the batch: asyncPool never
\* raises, it goes on to start the remaining items and returns results.
C3_FailureDoesNotUnwind == poolPc # "threw"

\* C4: during the crawl |visited| <= maxPages; once the loop has ended the
\* frontier is empty or |visited| >= maxPages; the reported pagesCrawled is
\* |visited|.
C4_VisitedWithinBudget ==
  /\ Cardinality(visited) <= maxPages
  /\ scanPc \in {"check", "done"} =>
       Len(toVisit) = 0 \/ Cardinality(visited) >= maxPages
  /\ scanPc = "done" => scanResult.pagesCrawled = Cardinality(visited)

\* The budget stopped the crawl with URLs still on the frontier.
C4_Witness ==
  /\ scanPc = "done"
  /\ maxPages >= 2
  /\ Cardinality(visited) = maxPages
  /\ Len(toVisit) > 0

\* C5 as stated: with maxPages = 1 and the root not excluded, scanSite
\* visits only the root and never requests a discovered link, neither by
\* navigation nor by a check.
C5_NeverDereferences ==
  (maxPages = 1 /\ RootUrl \notin excluded) =>
    /\ visited \subseteq {RootUrl}
    /\ \A u \in Urls \ {RootUrl} : gotoCalls[u] = 0 /\ checkCalls[u] = 0

\* C5 amended: with maxPages = 1 and the root not excluded, the crawl loop
\* visits exactly the root and navigates to no discovered link; after the
\* loop every discovered href is still requested once by checkUrl.
C5_VisitsOnlyRoot ==
  (maxPages = 1 /\ RootUrl \notin excluded) =>
    /\ visited \subseteq {RootUrl}
    /\ scanPc # "crawl" => visited = {RootUrl}
    /\ \A u \in Urls \ {RootUrl} : gotoCalls[u] = 0
    /\ gotoCalls[RootUrl] <= 1
    /\ scanPc = "done" => \A h \in Hrefs(allLinks) : checkCalls[h] = 1

\* The root linked to other pages, none of which was visited; all were
\* checked.
C5_Witness ==
  /\ maxPages = 1
  /\ RootUrl \notin excluded
  /\ scanPc = "done"
  /\ visited = {RootUrl}
  /\ Len(toVisit) > 0
  /\ \E h \in Hrefs(allLinks) \ {RootUrl} : checkCalls[h] = 1

\* C6: checkUrl is called only after the crawl loop has ended, at most once
\* per href and only for collected hrefs; when scanSite returns, every
\* collected href (visited or not) was checked exactly once, has exactly one
\* result, and totalLinks is the number of distinct collected hrefs.
C6_EveryHrefCheckedOnce ==
  /\ \A u \in Urls :
       /\ checkCalls[u] <= 1
       /\ checkCalls[u] > 0 =>
            scanPc \in {"check", "done"} /\ u \in Hrefs(allLinks)
  /\ scanPc = "done" =>
       /\ \A h \in Hrefs(allLinks) :
            /\ checkCalls[h] = 1
            /\ Cardinality({i \in 1..Len(results) : results[i].href = h}) = 1
       /\ Len(results) = Cardinality(Hrefs(allLinks))
       /\ scanResult.totalLinks = Cardinality(Hrefs(allLinks))

\* A scan returned having checked an href it never visited.
C6_Witness ==
  /\ scanPc = "done"
  /\ Cardinality(Hrefs(allLinks)) >= 2
  /\ \E h \in Hrefs(allLinks) : h \notin visited /\ checkCalls[h] = 1

\* C7: with followRedirects, checkUrl issues at most 11 requests; after 11
\* followed redirects the result is statusCode none with error "Too many
\* redirects", and only then; a response that is not a followed redirect
\* ends the check after at most 10 hops with its own status and no error.
C7_RedirectBound ==
  followRedirects =>
    /\ ckRequests <= MaxRedirects + 1
    /\ ck.i <= MaxRedirects + 1
    /\ ck.pc = "returned" =>
         /\ ck.i = MaxRedirects + 1 =>
              /\ ck.result.statusCode = NullStatus
              /\ ck.result.error = TooManyRedirects
         /\ ck.result.error = TooManyRedirects => ck.i = MaxRedirects + 1
         /\ (/\ ckLast.kind = "http"
             /\ ~(IsRedirectStatus(ckLast.status) /\ ckLast.location # Null)) =>
              /\ ck.i <= MaxRedirects
              /\ ck.result.statusCode = ckLast.status
              /\ ck.result.error = Null

\* A chain of 11 followed redirects ended the check.
C7_Witness ==
  /\ followRedirects
  /\ ck.pc = "returned"
  /\ ck.i = MaxRedirects + 1
  /\ ckRequests = MaxRedirects + 1
  /\ ck.result.error = TooManyRedirects

\* C8: in a result carrying an HTTP status (error none), finalUrl is
\* non-none iff a redirect was followed, and it is then the URL whose
\* response ended the check.
C8_FinalUrlIffRedirected ==
  (ck.pc = "returned" /\ ck.result.error = Null) =>
    /\ ck.result.finalUrl # Null <=> Len(ck.result.redirectChain) > 0
    /\ Len(ck.result.redirectChain) > 0 <=> ck.i > 0
    /\ ck.result.finalUrl # Null => ck.result.finalUrl = ckLastUrl

\* A check redirected away and back ended with an HTTP status.
C8_Witness ==
  /\ ck.pc = "returned"
  /\ ck.result.error = Null
  /\ Len(ck.result.redirectChain) >= 2
  /\ ck.result.finalUrl = ck.result.redirectChain[1]

\* C9: a fetch that times out or fails, on any hop, ends the check with
\* statusCode none, finalUrl none and the failure message as error;
\* checkUrl never raises.
C9_FailureEndsCheck ==
  /\ ck.pc # "threw"
  /\ ckLast.kind = "fail" =>
       /\ ck.pc = "returned"
       /\ ck.result.statusCode = NullStatus
       /\ ck.result.finalUrl = Null
       /\ ck.result.error = ckLast.msg

\* A fetch failed after two redirects had been followed.
C9_Witness ==
  /\ ckLast.kind = "fail"
  /\ Len(ck.redirectChain) = 2
  /\ ck.pc = "returned"

\* C10: scanSite's classification never puts a "Too many redirects" result
\* into the bucket (connectionErrors) that holds a network-failed result.
C10_TooManyRedirectsApart ==
  scanPc = "done" =>
    LET bucket == scanResult.connectionErrors IN
    ~ \E i, j \in 1..Len(bucket) :
        /\ bucket[i].error = TooManyRedirects
        /\ bucket[j].error \in FailMessages

\* C11: normalizeUrl is idempotent: normalizing the image of any string
\* gives that image again.
C11_NormalizeIdempotent == nz.pc = "twice" => nz.twice = nz.once

\* C12: for every parseable URL the query of normalizeUrl(u) is the query
\* of u.
C12_QueryUntouched ==
  (nz.pc = "once" /\ Parseable(nz.url)) =>
    /\ Parseable(nz.once)
    /\ ParseUrl(nz.once).hasQuery = ParseUrl(nz.url).hasQuery
    /\ ParseUrl(nz.once).query = ParseUrl(nz.url).query

\* ------------------------------------------------------ computeFixes claims
Fixed == fx.pc = "fixed"

BrokenHrefs == {fx.brokenLinks[i].href : i \in 1..Len(fx.brokenLinks)}

\* the finalUrls of the redirect results with this href that have one
KnownTargets(href) ==
  {fx.redirectLinks[i].finalUrl : i \in
     {k \in 1..Len(fx.redirectLinks) :
        /\ fx.redirectLinks[k].href = href
        /\ fx.redirectLinks[k].finalUrl # NoUrl}}

FixesOf(href) == {i \in 1..Len(fx.fixes) : fx.fixes[i].originalHref = href}

FirstAppearance(href) ==
  CHOOSE i \in 1..Len(fx.brokenLinks) :
    /\ fx.brokenLinks[i].href = href
    /\ \A j \in 1..(i - 1) : fx.brokenLinks[j].href # href

Scores(href) ==
  {pathSimilarity(href, fx.knownGoodUrls[k]) : k \in 1..Len(fx.knownGoodUrls)}

BestScore(href) == CHOOSE best \in Scores(href) :
                     \A score \in Scores(href) : AtLeast(best, score)

FirstBest(href) ==
  CHOOSE k \in 1..Len(fx.knownGoodUrls) :
    /\ pathSimilarity(href, fx.knownGoodUrls[k]) = BestScore(href)
    /\ \A j \in 1..(k - 1) :
         pathSimilarity(href, fx.knownGoodUrls[j]) # BestScore(href)

IsRedirectFix(fix, href, targets) ==
  /\ fix.originalHref = href
  /\ fix.suggestedHref \in targets
  /\ fix.confidence = RedirectConfidence
  /\ fix.method = "redirect-target"

\* C13 as stated: every broken href with a known redirect target gets the
\* redirect-target suggestion (that target, confidence 0.95), whatever the
\* candidates score and whatever minConfidence is.
C13_RedirectAlwaysWins ==
  Fixed =>
    \A href \in BrokenHrefs :
      KnownTargets(href) # {} =>
        /\ FixesOf(href) # {}
        /\ \A i \in FixesOf(href) :
             IsRedirectFix(fx.fixes[i], href, KnownTargets(href))

\* C13 amended: for minConfidence <= 0.95, every broken href with a known
\* redirect target gets exactly one suggestion: the finalUrl of the last
\* redirect result of that href, confidence 0.95, method redirect-target,
\* also when a known-good candidate scores higher.
C13_RedirectWinsWhenCleared ==
  (Fixed /\ AtLeast(RedirectConfidence, fx.minConfidence)) =>
    \A href \in BrokenHrefs :
      KnownTargets(href) # {} =>
        /\ Cardinality(FixesOf(href)) = 1
        /\ \A i \in FixesOf(href) :
             IsRedirectFix(fx.fixes[i], href,
               {fx.redirectLinks[CHOOSE k \in 1..Len(fx.redirectLinks) :
                  /\ fx.redirectLinks[k].href = href
                  /\ fx.redirectLinks[k].finalUrl # NoUrl
                  /\ \A j \in (k + 1)..Len(fx.redirectLinks) :
                       \/ fx.redirectLinks[j].href # href
                       \/ fx.redirectLinks[j].finalUrl = NoUrl].finalUrl})

C13_Witness ==
  /\ Fixed
  /\ AtLeast(RedirectConfidence, fx.minConfidence)
  /\ Cardinality(KnownTargets(UrlAB)) = 2
  /\ UrlAB \in BrokenHrefs
  /\ fx.knownGoodUrls # <<>>
  /\ Less(RedirectConfidence, BestScore(UrlAB))
  /\ \E i \in FixesOf(UrlAB) : fx.fixes[i].method = "redirect-target"

\* C14: the fixes are in non-increasing order of confidence, and two fixes of
\* equal confidence are in the order in which their hrefs first appear in
\* brokenLinks.
C14_SortedAndStable ==
  Fixed =>
    \A i, j \in 1..Len(fx.fixes) :
      i < j =>
        /\ AtLeast(fx.fixes[i].confidence, fx.fixes[j].confidence)
        /\ fx.fixes[i].confidence = fx.fixes[j].confidence =>
             FirstAppearance(fx.fixes[i].originalHref)
               < FirstAppearance(fx.fixes[j].originalHref)

C14_Witness ==
  /\ Fixed
  /\ Len(fx.fixes) = 2
  /\ fx.fixes[1].confidence = fx.fixes[2].confidence
  /\ fx.fixes[1].originalHref = UrlC
  /\ fx.fixes[2].originalHref = UrlAB

\* C15: the originalHrefs of the fixes are pairwise distinct, each is the href
\* of a broken result, and a fix's sourcePages holds the sourcePage of every
\* broken result with its href.
C15_OnePerHref ==
  Fixed =>
    /\ \A i, j \in 1..Len(fx.fixes) :
         fx.fixes[i].originalHref = fx.fixes[j].originalHref => i = j
    /\ \A i \in 1..Len(fx.fixes) :
         /\ fx.fixes[i].originalHref \in BrokenHrefs
         /\ \A k \in 1..Len(fx.brokenLinks) :
              fx.brokenLinks[k].href = fx.fixes[i].originalHref =>
                InSeq(fx.brokenLinks[k].sourcePage, fx.fixes[i].sourcePages)

C15_Witness ==
  /\ Fixed
  /\ Len(fx.brokenLinks) = 2
  /\ fx.brokenLinks[1].href = fx.brokenLinks[2].href
  /\ fx.brokenLinks[1].sourcePage # fx.brokenLinks[2].sourcePage
  /\ Len(fx.fixes) = 1
  /\ Len(fx.fixes[1].sourcePages) = 2

\* C16: no page occurs twice in the sourcePages of a fix.
C16_SourcePagesDeduplicated ==
  Fixed =>
    \A i \in 1..Len(fx.fixes) :
      \A k, l \in 1..Len(fx.fixes[i].sourcePages) :
        fx.fixes[i].sourcePages[k] = fx.fixes[i].sourcePages[l] => k = l

\* C17: a fix that is not a redirect-target fix suggests the first known-good
\* URL of the highest pathSimilarity score with its href, and has that score
\* as confidence.
C17_FirstBestCandidate ==
  Fixed =>
    \A i \in 1..Len(fx.fixes) :
      fx.fixes[i].method # "redirect-target" =>
        /\ fx.fixes[i].suggestedHref
             = fx.knownGoodUrls[FirstBest(fx.fixes[i].originalHref)]
        /\ fx.fixes[i].confidence = BestScore(fx.fixes[i].originalHref)

C17_Witness ==
  /\ Fixed
  /\ fx.knownGoodUrls = <<UrlB, UrlA>>
  /\ pathSimilarity(UrlAB, UrlA) = pathSimilarity(UrlAB, UrlB)
  /\ \E i \in FixesOf(UrlAB) :
       /\ fx.fixes[i].method = "path-similarity"
       /\ fx.fixes[i].suggestedHref = UrlB

\* C18: for a broken href without redirect target and a non-empty
\* knownGoodUrls, a fix is emitted if and only if the best score is at least
\* minConfidence; every fix has a confidence of at least minConfidence.
C18_EmittedIffBestClears ==
  (Fixed /\ fx.knownGoodUrls # <<>>) =>
    /\ \A href \in BrokenHrefs :
         KnownTargets(href) = {} =>
           (FixesOf(href) # {} <=> AtLeast(BestScore(href), fx.minConfidence))
    /\ \A i \in 1..Len(fx.fixes) :
         AtLeast(fx.fixes[i].confidence, fx.minConfidence)

\* --------------------------------------------------- fixesToRedirects claims
Redirected == fx.pc = "redirects"

KeptFixes == {i \in 1..Len(fx.fixes) : AtLeast(fx.fixes[i].confidence, fx.floor)}

\* the index in fixes of the n-th kept fix
NthKept(n) ==
  CHOOSE i \in KeptFixes : Cardinality({j \in KeptFixes : j <= i}) = n

PathOnly(str) == \A i \in 1..Len(str) : str[i] \notin {Origin, "?", "#"}

\* C19: the rules are, in order, one per fix of confidence >= the floor and
\* none for the others, each with statusCode 301.
C19_OneRulePerKeptFix ==
  Redirected =>
    /\ Len(fx.redirects) = Cardinality(KeptFixes)
    /\ \A n \in 1..Len(fx.redirects) :
         /\ fx.redirects[n].from = getPathname(fx.fixes[NthKept(n)].originalHref)
         /\ fx.redirects[n].to = getPathname(fx.fixes[NthKept(n)].suggestedHref)
         /\ fx.redirects[n].statusCode = 301

C19_Witness ==
  /\ Redirected
  /\ Len(fx.fixes) = 2
  /\ fx.fixes[1].confidence = fx.floor
  /\ Less(fx.fixes[2].confidence, fx.floor)
  /\ Len(fx.redirects) = 1
  /\ fx.redirects[1].from = getPathname(fx.fixes[1].originalHref)

\* C20 as stated: from and to of every rule hold no scheme, host or query.
C20_AlwaysPathOnly ==
  Redirected =>
    \A n \in 1..Len(fx.redirects) :
      PathOnly(fx.redirects[n].from) /\ PathOnly(fx.redirects[n].to)

\* C20 amended: from (to) of a rule holds no scheme, host or query when the
\* originalHref (suggestedHref) of its fix parses as an absolute URL.
C20_PathOnlyWhenParseable ==
  (Redirected /\ Len(fx.redirects) = Cardinality(KeptFixes)) =>
    \A n \in 1..Len(fx.redirects) :
      /\ Parseable(fx.fixes[NthKept(n)].originalHref) =>
           PathOnly(fx.redirects[n].from)
      /\ Parseable(fx.fixes[NthKept(n)].suggestedHref) =>
           PathOnly(fx.redirects[n].to)

C20_Witness ==
  /\ Redirected
  /\ \E n \in 1..Len(fx.redirects) :
       /\ fx.fixes[NthKept(n)].suggestedHref = UrlMoved
       /\ fx.redirects[n].to = <<"/", "b", "/", "a">>
       /\ fx.redirects[n].from = <<"/", "a", "/", "b">>

\* ------------------------------------------- pathSimilarity, levenshtein
Scored == sm.pc = "scored"

Measured == sm.pc = "measured"

\* C21: pathSimilarity(a, b) = pathSimilarity(b, a) for every pair of URLs.
C21_Symmetric == Scored => sm.ab = sm.ba

\* the same string up to the case of its letters
SameButCase(a, b) ==
  /\ Len(a) = Len(b)
  /\ \A i \in 1..Len(a) : a[i] = b[i] \/ {a[i], b[i]} = {"a", "A"}

\* C22: pathSimilarity(a, a) = 1, also for the root path and for two
\* spellings of a that differ in the case of letters only.
C22_SelfSimilarityOne == (Scored /\ SameButCase(sm.a, sm.b)) => sm.ab = One

C22_Witness ==
  /\ Scored
  /\ sm.a = <<Origin, "/", "a", "/", "A">>
  /\ sm.b = <<Origin, "/", "A", "/", "a">>
  /\ sm.ab = One

InUnitInterval(x) == AtLeast(x, Zero) /\ AtLeast(One, x)

\* C23: pathSimilarity is in [0,1]; for two non-empty paths it is
\* 0.6 * segmentSimilarity + 0.4 * editSimilarity, each of which is in [0,1].
C23_WithinUnitInterval ==
  Scored =>
    /\ InUnitInterval(sm.ab)
    /\ (pathSegments(sm.a) # <<>> /\ pathSegments(sm.b) # <<>>) =>
         LET seg == segmentSimilarity(sm.a, sm.b)
             edit == editSimilarity(sm.a, sm.b)
         IN /\ InUnitInterval(seg)
            /\ InUnitInterval(edit)
            /\ sm.ab = Frac(6 * seg.n * edit.d + 4 * edit.n * seg.d,
                            10 * seg.d * edit.d)

C23_Witness ==
  /\ Scored
  /\ pathSegments(sm.a) = <<<<"a">>, <<"a">>>>
  /\ pathSegments(sm.b) = <<<<"a">>>>
  /\ segmentSimilarity(sm.a, sm.b) = One
  /\ Less(sm.ab, One)
  /\ Less(Zero, sm.ab)

\* the edit distance by its recurrence: substitution, insertion and deletion
\* of one character cost 1 each
RECURSIVE EditDistance(_, _)
EditDistance(s, t) ==
  IF s = <<>> THEN Len(t)
  ELSE IF t = <<>> THEN Len(s)
  ELSE IF Head(s) = Head(t) THEN EditDistance(Tail(s), Tail(t))
  ELSE 1 + Min2(EditDistance(Tail(s), Tail(t)),
                Min2(EditDistance(Tail(s), t), EditDistance(s, Tail(t))))

\* C24: levenshtein(s, t) is the edit distance of s and t; it is 0 for s = t
\* and at least the difference of the lengths.
C24_IsEditDistance ==
  Measured =>
    /\ sm.distance = EditDistance(sm.a, sm.b)
    /\ sm.a = sm.b => sm.distance = 0
    /\ sm.distance >= Len(sm.a) - Len(sm.b)
    /\ sm.distance >= Len(sm.b) - Len(sm.a)

C24_Witness ==
  /\ Measured
  /\ sm.a = <<"a", "/", "b">>
  /\ sm.b = <<"/", "b", "a">>
  /\ sm.distance = 2

\* ------------------------------------------------------------- the crawl
\* an excluded URL that was on the frontier and has been shifted off it:
\* it was discovered (or is the root), is never marked visited, and is no
\* longer queued, so the loop popped and discarded it
Discarded(u) ==
  /\ u \in excluded
  /\ ~InSeq(u, toVisit)
  /\ u = RootUrl \/ u \in Hrefs(allLinks)

ExcludedNeverVisited ==
  \A u \in excluded : u \notin visited /\ gotoCalls[u] = 0

\* C25: a URL matching an exclusion pattern is never visited, and once it has
\* been popped and discarded no step puts it on the frontier again.
C25_ExcludedNeverRequeued ==
  /\ []ExcludedNeverVisited
  /\ [][\A u \in Urls : Discarded(u) => ~InSeq(u, toVisit')]_vars

\* a page whose rendering failed is marked visited, was navigated to once and
\* is the source page of no recorded link
FailedPagesInert ==
  \A u \in crawlErrors :
    /\ u \in visited
    /\ gotoCalls[u] = 1
    /\ \A i \in 1..Len(allLinks) : ~InSeq(u, allLinks[i].sourcePages)
    /\ scanPc \in {"crawl", "render", "check", "done"}

\* C26: a failure to render a page is swallowed: the page stays visited and
\* contributes no links, and the step that catches the failure returns to the
\* loop with the frontier, the visited set and the link map as they were.
C26_RenderFailureSwallowed ==
  /\ []FailedPagesInert
  /\ [][crawlErrors' # crawlErrors =>
          /\ scanPc' = "crawl"
          /\ toVisit' = toVisit
          /\ visited' = visited
          /\ allLinks' = allLinks]_vars

C26_Witness ==
  /\ scanPc = "done"
  /\ crawlErrors = {"/a"}
  /\ visited = {"/", "/a", "/b"}
  /\ scanResult.pagesCrawled = 3
  /\ \E i \in 1..Len(allLinks) : InSeq("/b", allLinks[i].sourcePages)

\* the URLs scanSite holds for visiting or verifying
HeldUrls ==
  visited \cup {toVisit[i] : i \in 1..Len(toVisit)}
    \cup Hrefs(allLinks)
    \cup {items[i].href : i \in 1..Len(items)}
    \cup {results[i].href : i \in 1..Len(results)}
    \cup (IF curUrl = Null THEN {} ELSE {curUrl})

\* C29: every URL visited, queued, recorded in the link map or handed to the
\* verifier is of the root's origin; hrefs that are malformed or of another
\* scheme, host or port are in none of these.
C29_SameOriginOnly ==
  \A u \in HeldUrls : u # BadLocation /\ OriginOf(u) = Origin

C29_Witness ==
  /\ scanPc = "crawl"
  /\ curPage = [origin |-> Origin, anchors |-> <<OtherScheme, "/a">>]
  /\ Hrefs(allLinks) = {"/a"}
  /\ toVisit = <<"/a">>

\* ------------------------------------------------------------ the buckets
Bucket(name) == {scanResult[name][i] : i \in 1..Len(scanResult[name])}

\* C27: in a returned ScanResult no result is in two of brokenLinks,
\* serverErrors and connectionErrors (redirectLinks is free to share results
\* with each of them).
C27_ErrorBucketsDisjoint ==
  scanPc = "done" =>
    /\ Bucket("brokenLinks") \cap Bucket("serverErrors") = {}
    /\ Bucket("brokenLinks") \cap Bucket("connectionErrors") = {}
    /\ Bucket("serverErrors") \cap Bucket("connectionErrors") = {}

C27_Witness ==
  /\ scanPc = "done"
  /\ Bucket("redirectLinks") \cap Bucket("brokenLinks") # {}
  /\ Bucket("redirectLinks") \cap Bucket("connectionErrors") # {}
  /\ Bucket("serverErrors") = {}

\* the check results in the order of linkEntries, whatever order the checks
\* completed in
ResultOf(href) == CHOOSE r \in {results[i] : i \in 1..Len(results)} : r.href = href

Checked(entry) == \E i \in 1..Len(results) : results[i].href = entry.href

InEntryOrder ==
  LET done == SelectSeq(items, Checked)
  IN [i \in 1..Len(done) |-> ResultOf(done[i].href)]

FixesInEntryOrder ==
  LET result == [brokenLinks |-> SelectSeq(InEntryOrder, IsBroken),
                 redirectLinks |-> SelectSeq(InEntryOrder, IsRedirectLink),
                 serverErrors |-> SelectSeq(InEntryOrder, IsServerError),
                 connectionErrors |-> SelectSeq(InEntryOrder, IsConnectionError)]
  IN computeFixes(FixerViews(result.brokenLinks), GoodUrls(result),
                  FixerViews(result.redirectLinks), CliMinConfidence)

FixCommandExited == cli.pc = "exited" /\ cli.command = "fix" /\ cli.exitCode = 0

\* C28: the fix suggestions computed from a scan come in one order, the one
\* the discovered links give, whatever order the concurrent checks completed
\* in
C28_FixOrderDeterministic == FixCommandExited => cli.fixes = FixesInEntryOrder

ScanCommandExited == cli.pc = "exited" /\ cli.command = "scan"

\* C30: the scan command exits 0 only when every checked link is healthy (no
\* 404, no server error, no connection error, and the report says "All links
\* healthy."), 1 when broken links were found, 2 when the scan failed
C30_ExitCodes ==
  ScanCommandExited =>
    /\ cli.exitCode = 0 =>
         /\ scanPc = "done"
         /\ Len(scanResult.brokenLinks) = 0
         /\ Len(scanResult.serverErrors) = 0
         /\ Len(scanResult.connectionErrors) = 0
         /\ cli.summary = AllHealthy
    /\ (scanPc = "done" /\ Len(scanResult.brokenLinks) > 0) => cli.exitCode = 1
    /\ scanPc = "failed" => cli.exitCode = 2

NoDuplicates(q) == \A i, j \in 1..Len(q) : q[i] = q[j] => i = j

\* C33: in every state of the crawl the frontier holds no URL twice and no
\* visited URL, and no page is navigated to more than once
C33_FrontierDistinct ==
  /\ NoDuplicates(toVisit)
  /\ \A u \in visited : ~InSeq(u, toVisit)
  /\ \A u \in Urls : gotoCalls[u] <= 1

\* a page that links to itself and to the visited root has been rendered:
\* neither was queued
C33_Witness ==
  /\ scanPc = "crawl"
  /\ visited = {"/", "/a"}
  /\ \E i \in 1..Len(allLinks) :
       allLinks[i].href = "/a" /\ InSeq("/a", allLinks[i].sourcePages)
  /\ \E i \in 1..Len(allLinks) :
       allLinks[i].href = "/" /\ InSeq("/a", allLinks[i].sourcePages)
  /\ toVisit = <<"/b">>

\* the while loop of the crawl has been left
LoopExited ==
  /\ scanPc \in {"check", "done"}
  /\ toVisit = <<>> \/ Cardinality(visited) >= maxPages

\* C34: on every site, with every budget, exclusion and pattern of render
\* failures, the crawl loop is eventually left, with the frontier empty or
\* the page budget used up, and is not entered again
C34_CrawlTerminates == <>[]LoopExited

\* the loop was left with an empty frontier and budget to spare, on a site
\* where /a links to itself and back to the root and /b is excluded
C34_Witness ==
  /\ scanPc = "check"
  /\ maxPages = 3
  /\ excluded = {"/b"}
  /\ visited = {"/", "/a"}
  /\ toVisit = <<>>
  /\ \E i \in 1..Len(allLinks) :
       allLinks[i].href = "/a" /\ InSeq("/a", allLinks[i].sourcePages)
  /\ \E i \in 1..Len(allLinks) :
       allLinks[i].href = "/" /\ InSeq("/a", allLinks[i].sourcePages)
  /\ "/b" \in Hrefs(allLinks)

\* a page is being navigated to or its links are being extracted
RenderInFlight == scanPc \in {"render", "loaded"}

\* C37: the crawl is sequential: a navigation starts only when no render is
\* in flight, and the frontier, the visited set and the link map change only
\* in a step of the crawl loop, at the start of an iteration or when the
\* render of the current page returns
C37_CrawlSequential ==
  [][/\ gotoCalls' # gotoCalls => ~RenderInFlight /\ scanPc' = "render"
     /\ <<toVisit, visited, allLinks>>' # <<toVisit, visited, allLinks>> =>
          \/ scanPc = "crawl"
          \/ RenderInFlight /\ scanPc' = "crawl"]_vars

\* /a is being rendered while /b waits on the frontier with budget left
C37_Witness ==
  /\ scanPc = "render"
  /\ curUrl = "/a"
  /\ toVisit = <<"/b">>
  /\ visited = {"/", "/a"}
  /\ maxPages = 3

SourcesOf(entry) == {entry.sourcePages[i] : i \in 1..Len(entry.sourcePages)}

Frontier == {toVisit[i] : i \in 1..Len(toVisit)}

\* C38: in every state of the crawl each href of the link map has at least
\* one source page, every source page is a visited page, and every URL on
\* the frontier or in visited, the root aside, is an href of the link map
C38_LinkMapConsistent ==
  /\ \A i \in 1..Len(allLinks) :
       /\ allLinks[i].sourcePages # <<>>
       /\ SourcesOf(allLinks[i]) \subseteq visited
  /\ (Frontier \cup visited) \ {RootUrl} \subseteq Hrefs(allLinks)

\* /b was found on the root and on /a and waits on the frontier
C38_Witness ==
  /\ scanPc = "crawl"
  /\ visited = {"/", "/a"}
  /\ toVisit = <<"/b">>
  /\ \E i \in 1..Len(allLinks) :
       allLinks[i].href = "/b" /\ SourcesOf(allLinks[i]) = {"/", "/a"}

\* C35: checkUrl terminates with one result and retries nothing: whatever
\* the server does, redirect cycles included, it makes at most 11 requests,
\* makes no request after an attempt that failed or timed out nor after it
\* returned, and eventually holds its result for good
C35_TerminatesNoRetry ==
  /\ <>[](ck.pc = "returned")
  /\ [](ckRequests <= MaxRedirects + 1)
  /\ [][/\ ck.pc = "fetch"
        /\ ckLast.kind # "fail"
        /\ ckRequests' = ckRequests + 1]_vars

\* a redirect cycle /a -> /b -> /a ... was followed to the 11th request
C35_Witness ==
  /\ ck.pc = "returned"
  /\ ckRequests = MaxRedirects + 1
  /\ Len(ck.result.redirectChain) = MaxRedirects + 1
  /\ \A i \in 1..(MaxRedirects + 1) :
       ck.result.redirectChain[i] = IF i % 2 = 1 THEN "/a" ELSE "/b"

\* the LinkCheckResult scanSite builds from the result of this check
CheckedLink ==
  LinkCheckResult([href |-> Null, sourcePages |-> <<Null>>], ck.result)

CliFixes == {cli.fixes[i] : i \in 1..Len(cli.fixes)}

ScanResults == {results[i] : i \in 1..Len(results)}

\* C39: a redirect-target suggestion computed from a scan is for an href
\* whose check followed at least one redirect and ended with status 404, and
\* it suggests the final URL of that chain, the URL that answered 404
C39_RedirectTargetIsThe404 ==
  FixCommandExited =>
    \A fix \in CliFixes :
      fix.method = "redirect-target" =>
        \E r \in ScanResults :
          /\ UrlOf(r.href) = fix.originalHref
          /\ r.statusCode = 404
          /\ r.isRedirect
          /\ r.redirectChain # <<>>
          /\ r.finalUrl # Null
          /\ fix.suggestedHref = UrlOf(r.finalUrl)

\* /a redirected to the root, which answered 404, and the root is suggested
\* for it; /b answered 404 at once
C39_Witness ==
  /\ FixCommandExited
  /\ \E fix \in CliFixes :
       /\ fix.method = "redirect-target"
       /\ fix.originalHref = UrlOf("/a")
       /\ fix.suggestedHref = UrlOf("/")
  /\ \E r \in ScanResults :
       r.href = "/a" /\ r.statusCode = 404 /\ r.finalUrl = "/"
  /\ \E r \in ScanResults :
       r.href = "/b" /\ r.statusCode = 404 /\ ~r.isRedirect

\* the pages of the crawl that referenced href, in the order they were crawled
ReferrersOf(href) ==
  LET entry == CHOOSE e \in {allLinks[i] : i \in 1..Len(allLinks)} :
                 e.href = href
  IN entry.sourcePages

Classified == ce.pc = "classified"

\* C32: every response with status 502, 503 or 504 that took less than
\* 10000 ms is classified upstream-dependency, whatever its body holds
C32_GatewayStatusIsUpstream ==
  (/\ Classified
   /\ ce.statusCode \in UpstreamStatuses
   /\ ce.responseTimeMs < SlowResponseMs) => ce.class = "upstream-dependency"

Applied == ap.pc = "applied"

\* the href attributes of a content, in order: each runs from one href= to
\* the next
AttrStarts(content) == {i \in 1..Len(content) : content[i] = HrefEq}

NthStart(content, k) ==
  CHOOSE i \in AttrStarts(content) :
    Cardinality({j \in AttrStarts(content) : j < i}) = k - 1

AttrAt(content, k) ==
  LET n == Cardinality(AttrStarts(content))
      from == NthStart(content, k)
      to == IF k < n THEN NthStart(content, k + 1) - 1 ELSE Len(content)
  IN SubSeq(content, from, to)

ValueOf(attr) == SubSeq(attr, 3, Len(attr) - 1)

\* the original path and the original URL of the fixes that changed the
\* content
AppliedOriginals ==
  UNION {{getPathname(ap.fixes[i].originalHref), ap.fixes[i].originalHref} :
           i \in ap.result.changedBy}

\* C31: applyFixesToContent applies no fix whose confidence is below
\* minConfidence; when no fix reaches it the content comes back as it was
\* and appliedCount is 0; and every href whose value is neither the original
\* path nor the original URL of an applied fix is left as it was
C31_OnlyConfidentFixesApplied ==
  Applied =>
    /\ \A i \in ap.result.changedBy :
         AtLeast(ap.fixes[i].confidence, ap.minConfidence)
    /\ (\A i \in 1..Len(ap.fixes) :
          Less(ap.fixes[i].confidence, ap.minConfidence)) =>
         /\ ap.result.content = ap.content
         /\ ap.result.appliedCount = 0
    /\ Cardinality(AttrStarts(ap.result.content))
         = Cardinality(AttrStarts(ap.content))
    /\ \A k \in 1..Cardinality(AttrStarts(ap.content)) :
         ValueOf(AttrAt(ap.content, k)) \notin AppliedOriginals =>
           AttrAt(ap.result.content, k) = AttrAt(ap.content, k)

\* of href="/a" and href='/b', the first was rewritten by the confident fix
\* for /a; the fix for /b was below the threshold and /b stayed
C31_Witness ==
  /\ Applied
  /\ ap.content = Attr(DoubleQuote, PathA) \o Attr(SingleQuote, PathB)
  /\ ap.fixes =
       <<[originalHref |-> UrlA, suggestedHref |-> UrlB,
          confidence |-> Frac(9, 10)],
         [originalHref |-> UrlB, suggestedHref |-> UrlC,
          confidence |-> Frac(5, 10)]>>
  /\ ap.result.content = Attr(DoubleQuote, PathB) \o Attr(SingleQuote, PathB)
  /\ ap.result.appliedCount = 1

====
